---- MODULE Spec2Model ----
(***************************************************************************)
(* A model of the response-assembly core of the inertia adapter:           *)
(* Renderer.Render, newPage, makeProps, resolvePartialComponentRequest,    *)
(* makeDeferredProps, makeMergeProps (src/renderer.go) over the Prop model *)
(* (src/unnamed/part_002).                                                 *)
(*                                                                         *)
(* A Go string is modelled as a sequence of lexemes: a prop key or a       *)
(* component name is a one-lexeme string such as <<"a">>, the empty string *)
(* is <<>>, and a header value such as "a,b" is <<"a", ",", "b">>.  The    *)
(* lexemes "," and " " are the comma and a whitespace character; every     *)
(* other lexeme stands for a fixed non-empty word without commas or        *)
(* whitespace.                                                             *)
(***************************************************************************)
EXTENDS Integers, Sequences, FiniteSets, TLC

\* Bounds of the model.
MaxProps == 2
MaxHeaderFields == 2

\* runtime.GOMAXPROCS(0) of the modelled host.
DefaultConcurrency == 2

None == <<>>
Some(x) == <<x>>

ComponentName == <<"Comp">>
OtherComponent == <<"Other">>
DefaultErrorBag == <<>>
DefaultDeferredGroup == <<"default">>
KeyLexemes == {"a", "b"}
Keys == {<<l>> : l \in KeyLexemes}
Groups == {<<>>, <<"g1">>}
Comma == ","
Space == " "

Max(a, b) == IF a >= b THEN a ELSE b

\* Mutant of CmpOr: the first value is taken even when it is the zero value.
CmpOr_First(x, y, zero) == x

\* cmp.Or over two values: the first that is not the zero value.
CmpOr(x, y, zero) == IF x # zero THEN x ELSE y

----------------------------------------------------------------------------
\* The Prop model (src/unnamed/part_002).  valFn says whether the prop holds
\* a Lazy value function; val is then the value that function returns when
\* it succeeds.

NewProp(key, val, merge) ==
    [key |-> key, val |-> val, valFn |-> FALSE, group |-> <<>>,
     mergeable |-> merge, deferred |-> FALSE, lazy |-> FALSE,
     ignorable |-> TRUE, concurrent |-> FALSE]

NewAlways(key, val) ==
    [key |-> key, val |-> val, valFn |-> FALSE, group |-> <<>>,
     mergeable |-> FALSE, deferred |-> FALSE, lazy |-> FALSE,
     ignorable |-> FALSE, concurrent |-> FALSE]

NewOptional(key, fn) ==
    [key |-> key, val |-> fn, valFn |-> TRUE, group |-> <<>>,
     mergeable |-> FALSE, deferred |-> FALSE, lazy |-> TRUE,
     ignorable |-> TRUE, concurrent |-> FALSE]

\* opts is None (a nil *DeferredOptions) or Some([Group, Merge, Concurrent]).
NewDeferred(key, fn, opts) ==
    [key |-> key, val |-> fn, valFn |-> TRUE,
     group |-> IF opts = None THEN DefaultDeferredGroup
               ELSE CmpOr(opts[1].Group, DefaultDeferredGroup, <<>>),
     mergeable |-> IF opts = None THEN FALSE ELSE opts[1].Merge,
     deferred |-> TRUE, lazy |-> TRUE, ignorable |-> TRUE,
     concurrent |-> IF opts = None THEN FALSE ELSE opts[1].Concurrent]

----------------------------------------------------------------------------
\* Header-value lists (src/renderer.go, extractHeaderValueList).

RECURSIVE Split(_, _)
\* strings.Split(h, sep) for a one-lexeme separator: the fields between the
\* separators, empty fields kept.
Split(h, sep) ==
    IF \A n \in 1..Len(h) : h[n] # sep THEN <<h>>
    ELSE LET n == CHOOSE x \in 1..Len(h) :
                      h[x] = sep /\ \A y \in 1..(x - 1) : h[y] # sep
         IN  <<SubSeq(h, 1, n - 1)>> \o Split(SubSeq(h, n + 1, Len(h)), sep)

RECURSIVE TrimLeft(_)
TrimLeft(f) ==
    IF f # <<>> /\ Head(f) = Space THEN TrimLeft(Tail(f)) ELSE f

RECURSIVE TrimRight(_)
TrimRight(f) ==
    IF f # <<>> /\ f[Len(f)] = Space
    THEN TrimRight(SubSeq(f, 1, Len(f) - 1)) ELSE f

\* strings.TrimSpace
TrimSpace(f) == TrimRight(TrimLeft(f))

\* Mutant of extractHeaderValueList: the fields are not trimmed.
extractHeaderValueList_NoTrim(h) ==
    IF h = <<>> THEN <<>> ELSE Split(h, Comma)

\* nil is modelled as the empty list: the callers only take len() of the
\* list and search it.
extractHeaderValueList(h) ==
    IF h = <<>> THEN <<>>
    ELSE LET fields == Split(h, Comma)
         IN  [n \in 1..Len(fields) |-> TrimSpace(fields[n])]

\* slices.Contains
Contains(list, x) == \E n \in 1..Len(list) : list[n] = x

----------------------------------------------------------------------------
\* JSON-like values.  A prop value is <<"val", j>>, the value of the j-th
\* prop of the render context; a map value is <<"map", f>>.
MapValue(f) == <<"map", f>>
EmptyMap == <<>>

\* m[k] = v on a Go map.
Put(mp, k, v) == [x \in (DOMAIN mp) \cup {k} |-> IF x = k THEN v ELSE mp[x]]

----------------------------------------------------------------------------
VARIABLES
    renderer,        \* *Renderer: [version, concurrency], and the Config it was built from
    req,             \* *http.Request: [Method, Header]
    renderCtx,       \* RenderContext: [Props, ErrorBag, ValidationErrorer, Concurrency]
    pc,              \* position of the goroutine that runs Renderer.Render
    concurrency,     \* renderCtx.Concurrency as set by Render (line 152)
    idx,             \* index of the range loops of makeProps / resolvePartialComponentRequest
    m,               \* the map[string]any under construction
    concurrentProps, \* indices (into rawProps) of the props collected for the pool
    tasks,           \* state of each task submitted to the pond group
    results,         \* result slot of each task of the group
    groupErr,        \* cause of the group context's cancellation: None or Some(error)
    ctxDone,         \* req.Context() has been cancelled
    tasksAtCancel,   \* None, or Some(tasks) as they were when the context was cancelled
    finishOrder,     \* the tasks whose function has returned, in the order of return
    invoked,         \* indices of the props whose Lazy value function was called
    resetSeen,       \* keys named by the reset headers of the requests served before
    page,            \* *Page built by newPage: None or Some(page)
    ret,             \* what Render returned: None (not yet), Some("nil") or Some(error)
    w,               \* http.ResponseWriter: [statusCode, header, body]
    mw,              \* the middleware's closure: its position, what it has called, the
                     \* writer as it was given (initial) and what the downstream
                     \* handler left in the wrapper (issued)
    rww,             \* the response writer the middleware wraps w in: None or Some(rww)
    resp,            \* the Response the inertiaframe endpoint returned: None or Some(resp)
    structVal,       \* the struct given to ParseStruct: its fields, in order
    opts,            \* the options NewRenderContext was called with, in order
    storage,         \* the shared Props: its length and its backing array, one slot per unit of capacity
    handlers         \* the inertiaframe handlers that run side by side on the shared props

vars == <<renderer, req, renderCtx, pc, concurrency, idx, m, concurrentProps,
          tasks, results, groupErr, ctxDone, tasksAtCancel, finishOrder, invoked,
          resetSeen, page, ret, w, mw, rww, resp, structVal, opts, storage, handlers>>

\* The inputs kept for the properties and the state of the handlers that run
\* side by side; Render leaves them alone.
sideVars == <<structVal, opts, storage, handlers>>

\* isInertiaRequest (src/renderer.go)
isInertiaRequest(r) == r.Header.XInertia = <<"true">>

\* Mutant of isPartialComponentRequest: any partial-component header makes
\* the request a partial one.
isPartialComponentRequest_AnyName(r, componentName) ==
    r.Header.XInertiaPartialComponent # <<>>

\* isPartialComponentRequest (src/renderer.go)
isPartialComponentRequest(r, componentName) ==
    r.Header.XInertiaPartialComponent = componentName

\* Mutant of makeValidationErrors: the error bag is not consulted, the errors
\* are always at the top level.
makeValidationErrors_Flat(errorers, errorBag) ==
    LET pairs == UNION {{errorers[n][k] : k \in 1..Len(errorers[n])} : n \in 1..Len(errorers)}
        fields == {e.field : e \in pairs}
        mm == [f \in fields |->
                 LET n == CHOOSE x \in 1..Len(errorers) :
                            /\ \E k \in 1..Len(errorers[x]) : errorers[x][k].field = f
                            /\ \A y \in (x + 1)..Len(errorers) :
                                 \A k \in 1..Len(errorers[y]) : errorers[y][k].field # f
                     k == CHOOSE x \in 1..Len(errorers[n]) :
                            /\ errorers[n][x].field = f
                            /\ \A y \in (x + 1)..Len(errorers[n]) : errorers[n][y].field # f
                 IN  <<"str", errorers[n][k].message>>]
    IN  NewAlways(<<"errors">>, MapValue(mm))

\* makeValidationErrors (src/renderer.go): the synthetic always-prop.
makeValidationErrors(errorers, errorBag) ==
    LET pairs == UNION {{errorers[n][k] : k \in 1..Len(errorers[n])} : n \in 1..Len(errorers)}
        fields == {e.field : e \in pairs}
        mm == [f \in fields |->
                 LET n == CHOOSE x \in 1..Len(errorers) :
                            /\ \E k \in 1..Len(errorers[x]) : errorers[x][k].field = f
                            /\ \A y \in (x + 1)..Len(errorers) :
                                 \A k \in 1..Len(errorers[y]) : errorers[y][k].field # f
                     k == CHOOSE x \in 1..Len(errorers[n]) :
                            /\ errorers[n][x].field = f
                            /\ \A y \in (x + 1)..Len(errorers[n]) : errorers[n][y].field # f
                 IN  <<"str", errorers[n][k].message>>]
    IN  IF errorBag # DefaultErrorBag
        THEN NewAlways(errorBag, MapValue((<<"errors">> :> MapValue(mm))))
        ELSE NewAlways(<<"errors">>, MapValue(mm))

\* rawProps of newPage (src/renderer.go, lines 204-206)
RawProps ==
    renderCtx.Props \o
    <<makeValidationErrors(renderCtx.ValidationErrorer, renderCtx.ErrorBag)>>

\* The whitelist and blacklist read by makeProps (lines 283-286)
Whitelist == extractHeaderValueList(req.Header.XInertiaPartialData)
Blacklist == extractHeaderValueList(req.Header.XInertiaPartialExcept)

\* Mutant of Filtered: the whitelist is not consulted.
Filtered_NoWhitelist(prop, whitelist, blacklist) ==
    prop.ignorable /\ Len(blacklist) > 0 /\ Contains(blacklist, prop.key)

\* Mutant of Filtered: the blacklist is not consulted.
Filtered_NoBlacklist(prop, whitelist, blacklist) ==
    prop.ignorable /\ Len(whitelist) > 0 /\ ~Contains(whitelist, prop.key)

\* Mutant of Filtered: always-props are filtered like every other prop.
Filtered_AlwaysToo(prop, whitelist, blacklist) ==
    \/ Len(whitelist) > 0 /\ ~Contains(whitelist, prop.key)
    \/ Len(blacklist) > 0 /\ Contains(blacklist, prop.key)

\* The filter of resolvePartialComponentRequest (lines 321-327): TRUE when the
\* loop `continue`s over the prop.
Filtered(prop, whitelist, blacklist) ==
    /\ prop.ignorable
    /\ \/ Len(whitelist) > 0 /\ ~Contains(whitelist, prop.key)
       \/ Len(blacklist) > 0 /\ Contains(blacklist, prop.key)

\* Mutant of SkippedOnFullRender: always-props are skipped instead of lazy ones.
SkippedOnFullRender_Always(prop) == ~prop.ignorable

\* Mutant of SkippedOnFullRender: only deferred props are skipped.
SkippedOnFullRender_DeferredOnly(prop) == prop.deferred

\* The skip of makeProps (lines 294-297): lazy props are left out of a full
\* render.
SkippedOnFullRender(prop) == prop.lazy

\* Prop.value (src/unnamed/part_002): a prop without value function always
\* yields its value; a Lazy value function may succeed or fail.
ValueOutcomes(prop) == IF prop.valFn THEN BOOLEAN ELSE {TRUE}

\* The error a failing value function returns: one error per value function,
\* which prop.val identifies.
ValueErr(prop) == <<"value error", prop.val>>

\* Mutant of ErrResolveProp: the cause is formatted into the message instead
\* of being wrapped.
ErrResolveProp_NoCause(key, err) == <<"inertia: failed to resolve prop", key, <<"formatted">>>>

\* fmt.Errorf("inertia: failed to resolve prop %s: %w", key, err)
ErrResolveProp(key, err) == <<"inertia: failed to resolve prop", key, err>>

\* fmt.Errorf("inertia: failed to resolve concurrent props: %w", e)
ErrResolveConcurrent(e) == <<"inertia: failed to resolve concurrent props", e>>

\* errors.Unwrap: the error wrapped with %w, None when there is none.
Unwrap(e) ==
    CASE e[1] = "inertia: failed to resolve prop" -> Some(e[3])
      [] e[1] = "inertia: failed to resolve concurrent props" -> Some(e[2])
      [] OTHER -> None

\* errors.Is(e, target)
RECURSIVE ErrorsIs(_, _)
ErrorsIs(e, target) ==
    \/ e = target
    \/ Unwrap(e) # None /\ ErrorsIs(Unwrap(e)[1], target)

\* The message of e, which prints the messages of the errors it wraps,
\* names the key as that of a prop that failed to resolve.
RECURSIVE NamesKey(_, _)
NamesKey(e, key) ==
    \/ e[1] = "inertia: failed to resolve prop" /\ e[2] = key
    \/ Unwrap(e) # None /\ NamesKey(Unwrap(e)[1], key)

----------------------------------------------------------------------------
\* Renderer.makeDeferredProps: None is the nil map of a partial request.
RECURSIVE DeferredIndex(_, _)
DeferredIndex(props, n) ==
    IF n = 0 THEN EmptyMap
    ELSE LET rest == DeferredIndex(props, n - 1)
             prop == props[n]
         IN  IF ~prop.deferred THEN rest
             ELSE Put(rest, prop.group,
                      (IF prop.group \in DOMAIN rest THEN rest[prop.group] ELSE <<>>)
                      \o <<prop.key>>)

\* Mutant of makeDeferredProps: the index is sent on partial requests too.
makeDeferredProps_Always(r, componentName, props) ==
    Some(DeferredIndex(props, Len(props)))

makeDeferredProps(r, componentName, props) ==
    IF isPartialComponentRequest(r, componentName) THEN None
    ELSE Some(DeferredIndex(props, Len(props)))

\* Mutant of makeMergeProps: the reset list is not consulted.
RECURSIVE makeMergeProps_IgnoreReset(_, _)
makeMergeProps_IgnoreReset(props, blacklist) ==
    IF props = <<>> THEN <<>>
    ELSE LET p == props[Len(props)]
             rest == makeMergeProps_IgnoreReset(SubSeq(props, 1, Len(props) - 1), blacklist)
         IN  IF ~p.mergeable THEN rest ELSE Append(rest, p.key)

\* Renderer.makeMergeProps
RECURSIVE makeMergeProps(_, _)
makeMergeProps(props, blacklist) ==
    IF props = <<>> THEN <<>>
    ELSE LET p == props[Len(props)]
             rest == makeMergeProps(SubSeq(props, 1, Len(props) - 1), blacklist)
         IN  IF (Len(blacklist) > 0 /\ Contains(blacklist, p.key)) \/ ~p.mergeable
             THEN rest
             ELSE Append(rest, p.key)

\* The loop of lines 370-372: m[prop.key] = result[i].value, in the order of
\* concurrentProps.
RECURSIVE PutResults(_, _, _, _)
PutResults(mp, props, cps, res) ==
    IF cps = <<>> THEN mp
    ELSE PutResults(Put(mp, props[Head(cps)].key, Head(res)), props, Tail(cps), Tail(res))

----------------------------------------------------------------------------
\* Renderer.Render, line 152, and the entry of newPage / makeProps.
RenderStart ==
    /\ pc = "idle"
    /\ concurrency' = Max(CmpOr(renderCtx.Concurrency, renderer.concurrency, 0), 0)
    /\ pc' = IF isPartialComponentRequest(req, ComponentName)
             THEN "resolvePartial" ELSE "makeProps"
    /\ idx' = 1
    /\ UNCHANGED <<sideVars, resp, mw, rww, ctxDone, tasksAtCancel, resetSeen, finishOrder, renderer, req, renderCtx, m, concurrentProps, tasks, results,
                   groupErr, invoked, page, ret, w>>

\* One iteration of the loop of makeProps (lines 293-305); after the last
\* prop makeProps returns m to newPage.
MakePropsStep ==
    /\ pc = "makeProps"
    /\ LET prop == RawProps[idx]
           last == idx = Len(RawProps)
           call == ~SkippedOnFullRender(prop)
       IN  \E ok \in (IF call THEN ValueOutcomes(prop) ELSE {TRUE}) :
             /\ invoked' = IF call /\ prop.valFn THEN invoked \cup {idx} ELSE invoked
             /\ IF ok
                THEN /\ m' = IF call THEN Put(m, prop.key, prop.val) ELSE m
                     /\ idx' = IF last THEN 0 ELSE idx + 1
                     /\ pc' = IF last THEN "newPage" ELSE pc
                     /\ ret' = ret
                ELSE /\ ret' = Some(ErrResolveProp(prop.key, ValueErr(prop)))
                     /\ pc' = "done"
                     /\ idx' = 0
                     /\ m' = EmptyMap
    /\ UNCHANGED <<sideVars, resp, mw, rww, ctxDone, tasksAtCancel, resetSeen, finishOrder, renderer, req, renderCtx, concurrency, concurrentProps, tasks,
                   results, groupErr, page, w>>

\* Mutant of ResolvePartialStep: the error of a failing sequential prop is
\* kept and the loop goes on to the props that follow.
ResolvePartialStep_ContinueOnError ==
    /\ pc = "resolvePartial"
    /\ LET prop == RawProps[idx]
           last == idx = Len(RawProps)
           skip == Filtered(prop, Whitelist, Blacklist)
           call == ~skip /\ ~prop.concurrent
       IN  \E ok \in (IF call THEN ValueOutcomes(prop) ELSE {TRUE}) :
             /\ invoked' = IF call /\ prop.valFn THEN invoked \cup {idx} ELSE invoked
             /\ m' = IF call /\ ok THEN Put(m, prop.key, prop.val) ELSE m
             /\ concurrentProps' = IF ~skip /\ prop.concurrent
                                   THEN Append(concurrentProps, idx)
                                   ELSE concurrentProps
             /\ idx' = IF last THEN 0 ELSE idx + 1
             /\ pc' = IF ~last THEN pc
                      ELSE IF Len(concurrentProps') > 0 THEN "submit"
                      ELSE "newPage"
             /\ ret' = IF ok \/ ret # None THEN ret
                       ELSE Some(ErrResolveProp(prop.key, ValueErr(prop)))
    /\ UNCHANGED <<sideVars, resp, mw, rww, ctxDone, tasksAtCancel, resetSeen, finishOrder, renderer, req, renderCtx, concurrency, tasks, results,
                   groupErr, page, w>>

\* One iteration of the first loop of resolvePartialComponentRequest
\* (lines 319-339).
ResolvePartialStep ==
    /\ pc = "resolvePartial"
    /\ LET prop == RawProps[idx]
           last == idx = Len(RawProps)
           skip == Filtered(prop, Whitelist, Blacklist)
           call == ~skip /\ ~prop.concurrent
       IN  \E ok \in (IF call THEN ValueOutcomes(prop) ELSE {TRUE}) :
             /\ invoked' = IF call /\ prop.valFn THEN invoked \cup {idx} ELSE invoked
             /\ IF ok
                THEN /\ m' = IF call THEN Put(m, prop.key, prop.val) ELSE m
                     /\ concurrentProps' = IF ~skip /\ prop.concurrent
                                           THEN Append(concurrentProps, idx)
                                           ELSE concurrentProps
                     /\ idx' = IF last THEN 0 ELSE idx + 1
                     /\ pc' = IF ~last THEN pc
                              ELSE IF Len(concurrentProps') > 0 THEN "submit"
                              ELSE "newPage"
                     /\ ret' = ret
                ELSE /\ ret' = Some(ErrResolveProp(prop.key, ValueErr(prop)))
                     /\ pc' = "done"
                     /\ idx' = 0
                     /\ m' = EmptyMap
                     /\ concurrentProps' = <<>>
    /\ UNCHANGED <<sideVars, resp, mw, rww, ctxDone, tasksAtCancel, resetSeen, finishOrder, renderer, req, renderCtx, concurrency, tasks, results,
                   groupErr, page, w>>

\* The contexts of a render: "req" is req.Context() (line 278), "group" the
\* context of the pond group, "background" one that is never cancelled.
CtxErr(c) ==
    CASE c = "req" -> ctxDone
      [] c = "group" -> groupErr # None
      [] OTHER -> FALSE

ContextCanceled == <<"context canceled">>

\* Mutant of GroupParent: the group is created without the request context.
GroupParent_Background == "background"

\* pool.NewGroupContext(ctx), line 343: the group context is a child of the
\* request context.
GroupParent == "req"

\* Lines 342-363: the pool and its group are created and every concurrent
\* prop is submitted; the render goroutine then blocks in group.Wait.
SubmitConcurrent ==
    /\ pc = "submit"
    /\ tasks' = [t \in 1..Len(concurrentProps) |-> "queued"]
    /\ results' = [t \in 1..Len(concurrentProps) |-> <<"zero">>]
    /\ groupErr' = IF CtxErr(GroupParent) THEN Some(ContextCanceled) ELSE None
    /\ pc' = "wait"
    /\ UNCHANGED <<sideVars, resp, mw, rww, ctxDone, tasksAtCancel, resetSeen, finishOrder, renderer, req, renderCtx, concurrency, idx, m, concurrentProps,
                   invoked, page, ret, w>>

\* Mutant of TaskProp: every closure reads one loop variable shared by the
\* iterations, which holds the last prop once the loop has ended.
TaskProp_SharedLoopVar(t) == RawProps[concurrentProps[Len(concurrentProps)]]

\* Mutant of TaskCtx: the value function gets a context of its own.
TaskCtx_Background(t) == "background"

\* The context the closure of the t-th task hands to prop.value (line 348):
\* the ctx parameter, which is the request context.
TaskCtx(t) == "req"

\* The prop captured by the closure submitted for the t-th concurrent prop
\* (lines 345-349; the loop variable is per iteration).
TaskProp(t) == RawProps[concurrentProps[t]]

\* Number of workers of the pool that hold a task.
Busy == Cardinality({t \in DOMAIN tasks : tasks[t] = "running"})

\* Mutant of SlotFree: the pool starts a task whatever the number of tasks
\* that are running.
SlotFree_Unbounded == TRUE

\* pond.NewResultPool(concurrency): at most `concurrency` tasks run at a
\* time; 0 stands for no limit.
SlotFree == concurrency = 0 \/ Busy < concurrency

\* A worker of the pool takes a queued task of the group.  The group's
\* wrapper first checks the group context: once a task has failed the
\* context is cancelled and the task function (lines 346-362) is not called.
WorkerStart(t) ==
    /\ pc \in {"wait", "done"}
    /\ tasks[t] = "queued"
    /\ SlotFree
    /\ IF groupErr # None
       THEN /\ tasks' = [tasks EXCEPT ![t] = "skipped"]
            /\ invoked' = invoked
       ELSE /\ tasks' = [tasks EXCEPT ![t] = "running"]
            /\ invoked' = invoked \cup {concurrentProps[t]}
    /\ UNCHANGED <<sideVars, resp, mw, rww, ctxDone, tasksAtCancel, resetSeen, finishOrder, renderer, req, renderCtx, pc, concurrency, idx, m,
                   concurrentProps, results, groupErr, page, ret, w>>

\* Mutant of TaskReturn: every failure replaces the error of the group, so
\* that the last one is reported.
TaskReturn_LastError(t) ==
    /\ pc \in {"wait", "done"}
    /\ tasks[t] = "running"
    /\ finishOrder' = Append(finishOrder, t)
    /\ LET prop == RawProps[concurrentProps[t]]
       IN  \E ok \in ValueOutcomes(prop) :
             IF ok
             THEN /\ tasks' = [tasks EXCEPT ![t] = "done"]
                  /\ results' = [results EXCEPT ![t] = prop.val]
                  /\ groupErr' = groupErr
             ELSE /\ tasks' = [tasks EXCEPT ![t] = "failed"]
                  /\ results' = results
                  /\ groupErr' = Some(ErrResolveProp(prop.key, ValueErr(prop)))
    /\ UNCHANGED <<sideVars, resp, mw, rww, ctxDone, tasksAtCancel, resetSeen, renderer, req, renderCtx, pc, concurrency,
                   idx, m, concurrentProps, invoked, page, ret, w>>

\* The task function returns (lines 349-361): the pair of the prop's key and
\* value, or the wrapped error; the first error of the group is kept and
\* cancels the group context.
TaskReturn(t) ==
    /\ pc \in {"wait", "done"}
    /\ tasks[t] = "running"
    /\ finishOrder' = Append(finishOrder, t)
    /\ LET prop == TaskProp(t)
       IN  \E ok \in ValueOutcomes(prop) :
             IF ok
             THEN /\ tasks' = [tasks EXCEPT ![t] = "done"]
                  /\ results' = [results EXCEPT ![t] = prop.val]
                  /\ groupErr' = groupErr
             ELSE /\ tasks' = [tasks EXCEPT ![t] = "failed"]
                  /\ results' = results
                  /\ groupErr' = IF groupErr = None
                                 THEN Some(ErrResolveProp(prop.key, ValueErr(prop)))
                                 ELSE groupErr
    /\ UNCHANGED <<sideVars, resp, mw, rww, ctxDone, tasksAtCancel, resetSeen, renderer, req, renderCtx, pc, concurrency, idx, m,
                   concurrentProps, invoked, page, ret, w>>

\* Mutant of GroupWait: Wait returns as soon as the group has an error,
\* without waiting for the tasks that are still running.
GroupWait_EarlyOnError ==
    /\ pc = "wait"
    /\ \/ groupErr # None
       \/ \A t \in DOMAIN tasks : tasks[t] \in {"done", "failed", "skipped"}
    /\ IF groupErr # None
       THEN /\ ret' = Some(ErrResolveConcurrent(groupErr[1]))
            /\ pc' = "done"
            /\ m' = EmptyMap
       ELSE /\ m' = PutResults(m, RawProps, concurrentProps, results)
            /\ pc' = "newPage"
            /\ ret' = ret
    /\ UNCHANGED <<sideVars, resp, mw, rww, ctxDone, tasksAtCancel, resetSeen, finishOrder, renderer, req, renderCtx,
                   concurrency, idx, concurrentProps, tasks, results, groupErr, invoked,
                   page, w>>

\* Mutant of GroupWait: the error of the group is dropped and the results
\* that are there are merged.
GroupWait_IgnoreError ==
    /\ pc = "wait"
    /\ \A t \in DOMAIN tasks : tasks[t] \in {"done", "failed", "skipped"}
    /\ m' = PutResults(m, RawProps, concurrentProps, results)
    /\ pc' = "newPage"
    /\ UNCHANGED <<sideVars, resp, mw, rww, ctxDone, tasksAtCancel, resetSeen, finishOrder, renderer, req, renderCtx, concurrency, idx, concurrentProps,
                   tasks, results, groupErr, invoked, page, ret, w>>

\* group.Wait returns (lines 365-373) once every task of the group has
\* finished.
GroupWait ==
    /\ pc = "wait"
    /\ \A t \in DOMAIN tasks : tasks[t] \in {"done", "failed", "skipped"}
    /\ IF groupErr # None
       THEN /\ ret' = Some(ErrResolveConcurrent(groupErr[1]))
            /\ pc' = "done"
            /\ m' = EmptyMap
       ELSE /\ m' = PutResults(m, RawProps, concurrentProps, results)
            /\ pc' = "newPage"
            /\ ret' = ret
    /\ UNCHANGED <<sideVars, resp, mw, rww, ctxDone, tasksAtCancel, resetSeen, finishOrder, renderer, req, renderCtx, concurrency, idx, concurrentProps,
                   tasks, results, groupErr, invoked, page, w>>

\* newPage, lines 213-228: the deferred index, the merge keys and the Page.
NewPage ==
    /\ pc = "newPage"
    /\ page' = Some([Component |-> ComponentName,
                     Props |-> m,
                     DeferredProps |-> makeDeferredProps(req, ComponentName, RawProps),
                     MergeProps |-> makeMergeProps(RawProps,
                                       extractHeaderValueList(req.Header.XInertiaReset)),
                     Version |-> renderer.version])
    /\ pc' = "write"
    /\ UNCHANGED <<sideVars, resp, mw, rww, ctxDone, tasksAtCancel, resetSeen, finishOrder, renderer, req, renderCtx, concurrency, idx, m, concurrentProps,
                   tasks, results, groupErr, invoked, ret, w>>

\* Render, lines 159-200: the page is written as JSON (protocol request) or
\* inside the HTML container.
WriteResponse ==
    /\ pc = "write"
    /\ w' = [statusCode |-> 200,
             header |-> IF isInertiaRequest(req)
                        THEN [XInertia |-> <<"true">>, ContentType |-> "application/json"]
                        ELSE [XInertia |-> <<>>, ContentType |-> "text/html"],
             body |-> page]
    /\ ret' = Some(<<"nil">>)
    /\ pc' = "done"
    /\ UNCHANGED <<sideVars, resp, mw, rww, ctxDone, tasksAtCancel, resetSeen, finishOrder, renderer, req, renderCtx, concurrency, idx, m, concurrentProps,
                   tasks, results, groupErr, invoked, page>>

Next ==
    \/ RenderStart
    \/ MakePropsStep
    \/ ResolvePartialStep
    \/ SubmitConcurrent
    \/ \E t \in DOMAIN tasks : WorkerStart(t)
    \/ \E t \in DOMAIN tasks : TaskReturn(t)
    \/ GroupWait
    \/ NewPage
    \/ WriteResponse

----------------------------------------------------------------------------
\* Initial states: a request has reached a handler that is about to call
\* Render with a render context.

RECURSIVE Join(_, _)
\* strings.Join(fields, sep)
Join(fields, sep) ==
    IF fields = <<>> THEN <<>>
    ELSE IF Len(fields) = 1 THEN fields[1]
    ELSE fields[1] \o <<sep>> \o Join(Tail(fields), sep)

\* The header values made of at most maxFields comma-separated fields; no
\* field at all is the absent header.
HeaderValues(fields, maxFields) ==
    {Join(fs, Comma) : fs \in UNION {[1..n -> fields] : n \in 0..maxFields}}

\* The fields of the list headers: a key or nothing.
KeyFields == Keys \cup {<<>>}

\* The props the four constructors build over the keys, with value v.
ConstructedProps(keys, groups, merges, concurrents, v) ==
    {NewProp(k, v, mg) : k \in keys, mg \in merges}
    \cup {NewAlways(k, v) : k \in keys}
    \cup {NewOptional(k, v) : k \in keys}
    \cup {NewDeferred(k, v, None) : k \in keys}
    \cup {NewDeferred(k, v, Some([Group |-> g, Merge |-> mg, Concurrent |-> c])) :
            k \in keys, g \in groups, mg \in merges, c \in concurrents}

\* Prop lists of at most maxProps props of the set; the j-th prop carries the
\* value <<"val", j>>.
PropLists(propSet, maxProps) ==
    UNION {{[j \in 1..n |-> [ps[j] EXCEPT !.val = <<"val", j>>]] :
              ps \in [1..n -> propSet]} : n \in 0..maxProps}

InitWith(propLists, partialComponents, datas, excepts, resets, bags, ctxConcs, cfgConcs) ==
    /\ \E cfg \in cfgConcs :
         renderer = [version |-> <<"v1">>,
                     config |-> [Concurrency |-> cfg],
                     concurrency |-> CmpOr(cfg, DefaultConcurrency, 0)]
    /\ \E pcmp \in partialComponents, d \in datas, e \in excepts, rs \in resets :
         req = [Method |-> "GET",
                Header |-> [XInertia |-> <<"true">>,
                            XInertiaPartialComponent |-> pcmp,
                            XInertiaPartialData |-> d,
                            XInertiaPartialExcept |-> e,
                            XInertiaReset |-> rs]]
    /\ \E pl \in propLists, bag \in bags, c \in ctxConcs :
         renderCtx = [Props |-> pl, ErrorBag |-> bag, ValidationErrorer |-> <<>>,
                      Concurrency |-> c]
    /\ pc = "idle"
    /\ concurrency = 0
    /\ idx = 0
    /\ m = EmptyMap
    /\ concurrentProps = <<>>
    /\ tasks = <<>>
    /\ results = <<>>
    /\ groupErr = None
    /\ ctxDone = FALSE
    /\ tasksAtCancel = None
    /\ finishOrder = <<>>
    /\ invoked = {}
    /\ resetSeen = {}
    /\ page = None
    /\ ret = None
    /\ w = [statusCode |-> 0, header |-> [XInertia |-> <<>>, ContentType |-> ""],
            body |-> None]
    /\ mw = [pc |-> "off"]
    /\ rww = None
    /\ resp = None
    /\ opts = <<>>
    /\ storage = <<>>
    /\ structVal = <<>>
    /\ handlers = <<>>

\* Prop filtering: every kind of prop over the keys, every whitelist and
\* blacklist header over the keys and the comma.
Init ==
    InitWith(PropLists(ConstructedProps(Keys, {<<>>}, {FALSE}, BOOLEAN, <<"val", 0>>),
                       MaxProps),
             {<<>>, ComponentName, OtherComponent},
             HeaderValues(KeyFields, MaxHeaderFields),
             HeaderValues(KeyFields, MaxHeaderFields),
             {<<>>},
             {DefaultErrorBag},
             {0},
             {0})

Spec == Init /\ [][Next]_vars

\* The next request reaches the same handler: the renderer and the render
\* context (the same props) are as before, the request headers are new and
\* Render starts afresh.
NextRequest ==
    /\ pc = "done"
    /\ resetSeen' = resetSeen \cup
                      {k \in Keys : Contains(extractHeaderValueList(req.Header.XInertiaReset), k)}
    /\ \E pcmp \in {<<>>, ComponentName},
          rs \in HeaderValues(KeyFields, MaxHeaderFields) :
         req' = [req EXCEPT !.Header.XInertiaPartialComponent = pcmp,
                            !.Header.XInertiaReset = rs]
    /\ pc' = "idle"
    /\ concurrency' = 0
    /\ idx' = 0
    /\ m' = EmptyMap
    /\ concurrentProps' = <<>>
    /\ tasks' = <<>>
    /\ results' = <<>>
    /\ groupErr' = None
    /\ ctxDone' = FALSE
    /\ tasksAtCancel' = None
    /\ finishOrder' = <<>>
    /\ invoked' = {}
    /\ page' = None
    /\ ret' = None
    /\ w' = [statusCode |-> 0, header |-> [XInertia |-> <<>>, ContentType |-> ""],
             body |-> None]
    /\ UNCHANGED <<renderer, renderCtx, mw, rww, resp, sideVars>>

\* The deferred index and the merge keys: props of every group and merge
\* flag, every reset header over the keys and the comma, several requests.
InitIndex ==
    InitWith(PropLists(ConstructedProps(Keys, Groups, BOOLEAN, BOOLEAN, <<"val", 0>>),
                       MaxProps),
             {<<>>, ComponentName},
             {<<>>},
             {<<>>},
             HeaderValues(KeyFields, MaxHeaderFields),
             {DefaultErrorBag},
             {0},
             {0})

NextIndex == Next \/ NextRequest

SpecIndex == InitIndex /\ [][NextIndex]_vars

\* The worker pool: up to MaxPoolProps props, concurrent ones among them,
\* under a pool of one worker, of DefaultConcurrency workers and without
\* limit.
MaxPoolProps == 3
PoolKeys == {<<"a">>, <<"b">>, <<"c">>}

InitPool ==
    InitWith(PropLists({NewAlways(k, <<"val", 0>>) : k \in PoolKeys}
                       \cup {NewOptional(k, <<"val", 0>>) : k \in PoolKeys}
                       \cup {NewDeferred(k, <<"val", 0>>,
                                         Some([Group |-> <<>>, Merge |-> FALSE,
                                               Concurrent |-> TRUE])) : k \in PoolKeys},
                       MaxPoolProps),
             {<<>>, ComponentName},
             {<<>>},
             {<<>>},
             {<<>>},
             {DefaultErrorBag},
             {-1, 0, 1},
             {0})

SpecPool == InitPool /\ [][Next]_vars

\* The client goes away or the request times out: req.Context() is cancelled
\* while Render is at work.  A group context that exists and is a child of
\* the request context is cancelled with it, the cause being the parent's.
CancelRequest ==
    /\ pc # "done"
    /\ ~ctxDone
    /\ ctxDone' = TRUE
    /\ tasksAtCancel' = Some(tasks)
    /\ groupErr' = IF pc = "wait" /\ GroupParent = "req" /\ groupErr = None
                   THEN Some(ContextCanceled)
                   ELSE groupErr
    /\ UNCHANGED <<sideVars, resp, mw, rww, resetSeen, finishOrder, renderer, req, renderCtx, pc, concurrency, idx, m,
                   concurrentProps, tasks, results, invoked, page, ret, w>>

NextCancel == Next \/ CancelRequest

\* The worker pool under a request context that may be cancelled.
SpecCancel == InitPool /\ [][NextCancel]_vars

\* The effective concurrency: concurrent props under every sign of
\* Config.Concurrency and of RenderContext.Concurrency.
InitConc ==
    InitWith(PropLists({NewDeferred(k, <<"val", 0>>,
                                    Some([Group |-> <<>>, Merge |-> FALSE,
                                          Concurrent |-> TRUE])) : k \in PoolKeys},
                       MaxPoolProps),
             {<<>>, ComponentName},
             {<<>>},
             {<<>>},
             {<<>>},
             {DefaultErrorBag},
             {-1, 0, 1, 3},
             {-1, 0, 1})

SpecConc == InitConc /\ [][Next]_vars

\* Validation errors: up to MaxErrorers errorers of up to MaxErrors errors
\* each, over two fields, under the default error bag and a custom one.
MaxErrorers == 2
MaxErrors == 2
CustomErrorBag == <<"custom">>

\* NewValidationError(field, message)
NewValidationError(field, message) == [field |-> field, message |-> message]

ValidationErrorSet ==
    {NewValidationError("name", "m1"), NewValidationError("name", "m2"),
     NewValidationError("email", "m1")}

\* The sequences of at most n elements of the set.
SeqUpTo(set, n) == UNION {[1..k -> set] : k \in 0..n}

InitErrors ==
    /\ renderer = [version |-> <<"v1">>, config |-> [Concurrency |-> 0],
                   concurrency |-> CmpOr(0, DefaultConcurrency, 0)]
    /\ \E pcmp \in {<<>>, ComponentName}, d \in {<<>>, <<"a">>}, e \in {<<>>, <<"errors">>} :
         req = [Method |-> "GET",
                Header |-> [XInertia |-> <<"true">>,
                            XInertiaPartialComponent |-> pcmp,
                            XInertiaPartialData |-> d,
                            XInertiaPartialExcept |-> e,
                            XInertiaReset |-> <<>>]]
    /\ \E pl \in PropLists({NewProp(<<"a">>, <<"val", 0>>, FALSE),
                              NewOptional(<<"b">>, <<"val", 0>>),
                              NewDeferred(<<"a">>, <<"val", 0>>,
                                          Some([Group |-> <<>>, Merge |-> FALSE,
                                                Concurrent |-> TRUE]))}, 1),
          bag \in {DefaultErrorBag, CustomErrorBag},
          errorers \in SeqUpTo(SeqUpTo(ValidationErrorSet, MaxErrors), MaxErrorers) :
         renderCtx = [Props |-> pl, ErrorBag |-> bag, ValidationErrorer |-> errorers,
                      Concurrency |-> 0]
    /\ pc = "idle"
    /\ concurrency = 0
    /\ idx = 0
    /\ m = EmptyMap
    /\ concurrentProps = <<>>
    /\ tasks = <<>>
    /\ results = <<>>
    /\ groupErr = None
    /\ ctxDone = FALSE
    /\ tasksAtCancel = None
    /\ finishOrder = <<>>
    /\ invoked = {}
    /\ resetSeen = {}
    /\ page = None
    /\ ret = None
    /\ w = [statusCode |-> 0, header |-> [XInertia |-> <<>>, ContentType |-> ""],
            body |-> None]
    /\ mw = [pc |-> "off"]
    /\ rww = None
    /\ resp = None
    /\ opts = <<>>
    /\ storage = <<>>
    /\ structVal = <<>>
    /\ handlers = <<>>

SpecErrors == InitErrors /\ [][Next]_vars

\* The list headers as the client may send them: any string of at most
\* MaxHeaderLen lexemes, commas and spaces among them.
MaxHeaderLen == 4
HeaderLexemes == KeyLexemes \cup {Comma, Space}

InitHeader ==
    InitWith(PropLists({NewProp(<<"a">>, <<"val", 0>>, FALSE),
                        NewDeferred(<<"b">>, <<"val", 0>>,
                                    Some([Group |-> <<>>, Merge |-> FALSE,
                                          Concurrent |-> TRUE]))}, MaxProps),
             {<<>>, ComponentName},
             SeqUpTo(HeaderLexemes, MaxHeaderLen),
             {<<>>},
             {<<>>},
             {DefaultErrorBag},
             {0},
             {0})

SpecHeader == InitHeader /\ [][Next]_vars

\* The options of NewRenderContext (src/middleware.go).
MaxOptions == 2
OtherErrorBag == <<"other">>

\* WithProps(props) and WithValidationErrors(errorers, errorBag) as options;
\* None is the nil Proper and the nil ValidationErrorer.
OptProps(props) == [kind |-> "WithProps", props |-> props, errorers |-> None, errorBag |-> <<>>]
OptValidationErrors(errorers, errorBag) == [kind |-> "WithValidationErrors", props |-> None, errorers |-> errorers, errorBag |-> errorBag]

\* RenderContext.AddValidationErrorer
AddValidationErrorer(ctx, err) == [ctx EXCEPT !.ValidationErrorer = Append(@, err)]

\* WithValidationErrors: the closure applied to the context.
WithValidationErrors(ctx, errorers, errorBag) ==
    IF errorers = None THEN ctx
    ELSE [AddValidationErrorer(ctx, errorers[1]) EXCEPT !.ErrorBag = errorBag]

\* WithProps: the closure applied to the context.
WithProps(ctx, props) ==
    IF props = None THEN ctx ELSE [ctx EXCEPT !.Props = @ \o props[1]]

ApplyOption(ctx, opt) ==
    IF opt.kind = "WithProps" THEN WithProps(ctx, opt.props)
    ELSE WithValidationErrors(ctx, opt.errorers, opt.errorBag)

\* NewRenderContext: the options applied in order to the zero RenderContext.
RECURSIVE ApplyOptions(_, _)
ApplyOptions(ctx, os) ==
    IF os = <<>> THEN ctx ELSE ApplyOptions(ApplyOption(ctx, Head(os)), Tail(os))

NewRenderContext(os) ==
    ApplyOptions([Props |-> <<>>, ErrorBag |-> <<>>, ValidationErrorer |-> <<>>,
                  Concurrency |-> 0], os)

OptionSet ==
    {OptProps(Some(<<NewProp(<<"a">>, <<"val", 1>>, FALSE),
                     NewDeferred(<<"c">>, <<"val", 2>>,
                                 Some([Group |-> <<>>, Merge |-> FALSE, Concurrent |-> TRUE]))>>)),
     OptValidationErrors(None, CustomErrorBag)}
    \cup {OptValidationErrors(Some(<<e>>), bag) :
            e \in {NewValidationError("name", "m1"), NewValidationError("email", "m2")},
            bag \in {DefaultErrorBag, CustomErrorBag, OtherErrorBag}}

\* The handler builds the render context with NewRenderContext(opts...) and
\* renders with it.
InitOptions ==
    /\ renderer = [version |-> <<"v1">>, config |-> [Concurrency |-> 0],
                   concurrency |-> CmpOr(0, DefaultConcurrency, 0)]
    /\ \E pcmp \in {<<>>, ComponentName} :
         req = [Method |-> "GET",
                Header |-> [XInertia |-> <<"true">>,
                            XInertiaPartialComponent |-> pcmp,
                            XInertiaPartialData |-> <<>>,
                            XInertiaPartialExcept |-> <<>>,
                            XInertiaReset |-> <<>>]]
    /\ opts \in SeqUpTo(OptionSet, MaxOptions)
    /\ renderCtx = NewRenderContext(opts)
    /\ pc = "idle"
    /\ concurrency = 0
    /\ idx = 0
    /\ m = EmptyMap
    /\ concurrentProps = <<>>
    /\ tasks = <<>>
    /\ results = <<>>
    /\ groupErr = None
    /\ ctxDone = FALSE
    /\ tasksAtCancel = None
    /\ finishOrder = <<>>
    /\ invoked = {}
    /\ resetSeen = {}
    /\ page = None
    /\ ret = None
    /\ w = [statusCode |-> 0, header |-> [XInertia |-> <<>>, ContentType |-> ""],
            body |-> None]
    /\ mw = [pc |-> "off"]
    /\ rww = None
    /\ resp = None
    /\ storage = <<>>
    /\ structVal = <<>>
    /\ handlers = <<>>

SpecOptions == InitOptions /\ [][Next]_vars

\* ParseStruct (src/struct_parser.go).  A field of the struct is its name,
\* whether it is exported, its inertia and inertiagroup tags, whether its value
\* is a Lazy or LazyFunc, and whether its value is the zero value.
MaxFields == 1

propTypeOptional == <<"optional">>
propTypeDeferred == <<"deferred">>
propTypeAlways == <<"always">>
propDiscard == <<"-">>
propOmitEmpty == <<"omitempty">>
propMergeable == <<"mergeable">>
propConcurrent == <<"concurrent">>

ErrGroupOnNonDeferred == <<"inertiaframe: cannot use group tag on non-deferred field">>
ErrInvalidLazy == <<"inertiaframe: invalid lazy value">>
ErrUnknownFieldType(t) == <<"inertiaframe: unknown field type", t>>

\* The flag of a tag as ParseStruct reads it: the literal at its position.
TagFlag(parts, pos, literal) == Len(parts) >= pos /\ parts[pos] = literal

\* One iteration of the loop of ParseStruct with the j-th field: the field is
\* skipped, or it is an error, or it gives a prop, whose value is <<"val", j>>.
ParseField(field, j) ==
    LET parts == Split(field.tag, Comma)
        fieldName == IF parts[1] # <<>> THEN parts[1] ELSE field.Name
        fieldType == IF Len(parts) > 1 THEN parts[2] ELSE <<>>
        mergeable == TagFlag(parts, 3, propMergeable)
        concurrent == TagFlag(parts, 4, propConcurrent)
        v == <<"val", j>>
    IN  IF ~field.exported \/ field.tag = <<>> THEN [kind |-> "skip"]
        ELSE IF fieldName = propDiscard THEN [kind |-> "skip"]
        ELSE IF parts[Len(parts)] = propOmitEmpty /\ field.zero THEN [kind |-> "skip"]
        ELSE IF field.group # <<>> /\ fieldType # propTypeDeferred
        THEN [kind |-> "err", err |-> ErrGroupOnNonDeferred]
        ELSE IF fieldType \in {propTypeOptional, propTypeDeferred} /\ ~field.lazy
        THEN [kind |-> "err", err |-> ErrInvalidLazy]
        ELSE IF fieldType = propTypeOptional
        THEN [kind |-> "prop", prop |-> NewOptional(fieldName, v)]
        ELSE IF fieldType = propTypeDeferred
        THEN [kind |-> "prop",
              prop |-> NewDeferred(fieldName, v,
                                   Some([Merge |-> mergeable,
                                         Group |-> CmpOr(field.group, DefaultDeferredGroup, <<>>),
                                         Concurrent |-> concurrent]))]
        ELSE IF fieldType = propTypeAlways
        THEN [kind |-> "prop", prop |-> NewAlways(fieldName, v)]
        ELSE IF fieldType = <<>>
        THEN [kind |-> "prop", prop |-> NewProp(fieldName, v, mergeable)]
        ELSE [kind |-> "err", err |-> ErrUnknownFieldType(fieldType)]

\* ParseStruct over the fields from the j-th on, props being those of the
\* fields before: the props, or the first error.
RECURSIVE ParseFrom(_, _, _)
ParseFrom(fields, j, props) ==
    IF j > Len(fields) THEN [props |-> props, err |-> None]
    ELSE LET r == ParseField(fields[j], j)
         IN  IF r.kind = "err" THEN [props |-> <<>>, err |-> Some(r.err)]
             ELSE ParseFrom(fields, j + 1, IF r.kind = "prop" THEN Append(props, r.prop) ELSE props)

ParseStruct(fields) == ParseFrom(fields, 1, <<>>)

\* The handler parses its struct and renders with the props.
ParseStructStep ==
    /\ pc = "parse"
    /\ LET r == ParseStruct(structVal)
       IN  IF r.err # None
           THEN /\ ret' = r.err
                /\ pc' = "done"
                /\ UNCHANGED renderCtx
           ELSE /\ renderCtx' = [renderCtx EXCEPT !.Props = r.props]
                /\ pc' = "idle"
                /\ UNCHANGED ret
    /\ UNCHANGED <<sideVars, resp, mw, rww, ctxDone, tasksAtCancel, resetSeen,
                   finishOrder, renderer, req, concurrency, idx, m, concurrentProps, tasks,
                   results, groupErr, invoked, page, w>>

NextParse == ParseStructStep \/ Next

\* The tags of the documented format name[,type][,mergeable][,concurrent]
\* [,omitempty]: every optional part is there or is left out.
DocTags ==
    {Join(<<<<"a">>>> \o t \o mg \o c \o o, Comma) :
        t \in {<<>>, <<propTypeOptional>>, <<propTypeDeferred>>, <<propTypeAlways>>},
        mg \in {<<>>, <<propMergeable>>}, c \in {<<>>, <<propConcurrent>>},
        o \in {<<>>, <<propOmitEmpty>>}}

\* Tags whose parts are at fixed positions, the parts left out being empty.
PositionalTags ==
    {Join(<<<<"a">>, t, mg, c>>, Comma) :
        t \in {<<>>, propTypeDeferred}, mg \in {<<>>, propMergeable},
        c \in {<<>>, propConcurrent}}

OtherTags == {<<>>, <<"-">>, <<"a", Comma, "lazy">>, <<Comma, "always">>}

StructFields ==
    {[Name |-> <<"A">>, exported |-> e, tag |-> t, group |-> g, lazy |-> l, zero |-> z] :
        e \in BOOLEAN, t \in DocTags \cup PositionalTags \cup OtherTags,
        g \in {<<>>, <<"metrics">>}, l \in BOOLEAN, z \in BOOLEAN}

InitParse ==
    /\ renderer = [version |-> <<"v1">>, config |-> [Concurrency |-> 0],
                   concurrency |-> CmpOr(0, DefaultConcurrency, 0)]
    /\ \E pcmp \in {<<>>, ComponentName} :
         req = [Method |-> "GET",
                Header |-> [XInertia |-> <<"true">>,
                            XInertiaPartialComponent |-> pcmp,
                            XInertiaPartialData |-> <<>>,
                            XInertiaPartialExcept |-> <<>>,
                            XInertiaReset |-> <<>>]]
    /\ structVal \in SeqUpTo(StructFields, MaxFields)
    /\ renderCtx = [Props |-> <<>>, ErrorBag |-> DefaultErrorBag, ValidationErrorer |-> <<>>,
                    Concurrency |-> 0]
    /\ pc = "parse"
    /\ concurrency = 0
    /\ idx = 0
    /\ m = EmptyMap
    /\ concurrentProps = <<>>
    /\ tasks = <<>>
    /\ results = <<>>
    /\ groupErr = None
    /\ ctxDone = FALSE
    /\ tasksAtCancel = None
    /\ finishOrder = <<>>
    /\ invoked = {}
    /\ resetSeen = {}
    /\ page = None
    /\ ret = None
    /\ w = [statusCode |-> 0, header |-> [XInertia |-> <<>>, ContentType |-> ""],
            body |-> None]
    /\ mw = [pc |-> "off"]
    /\ rww = None
    /\ resp = None
    /\ opts = <<>>
    /\ storage = <<>>
    /\ handlers = <<>>

SpecParse == InitParse /\ [][NextParse]_vars

\* The package-level Render (src/middleware.go): the handler calls it with a
\* request whose context holds the renderer (the middleware has run) or does
\* not.
ErrRendererNotFound == <<"inertia: renderer not found in request context">>

InitEntry ==
    /\ renderer = [version |-> <<"v1">>, config |-> [Concurrency |-> 0],
                   concurrency |-> CmpOr(0, DefaultConcurrency, 0)]
    /\ \E pcmp \in {<<>>, ComponentName}, x \in {<<>>, <<"true">>},
          rd \in {None, Some("renderer")} :
         req = [Method |-> "GET",
                Context |-> [kCtxKey |-> rd],
                Header |-> [XInertia |-> x,
                            XInertiaPartialComponent |-> pcmp,
                            XInertiaPartialData |-> <<>>,
                            XInertiaPartialExcept |-> <<>>,
                            XInertiaReset |-> <<>>]]
    /\ \E pl \in PropLists({NewProp(<<"a">>, <<"val", 0>>, FALSE),
                              NewOptional(<<"b">>, <<"val", 0>>),
                              NewDeferred(<<"c">>, <<"val", 0>>,
                                          Some([Group |-> <<>>, Merge |-> FALSE,
                                                Concurrent |-> TRUE]))}, MaxProps) :
         renderCtx = [Props |-> pl, ErrorBag |-> DefaultErrorBag, ValidationErrorer |-> <<>>,
                      Concurrency |-> 0]
    /\ pc = "entry"
    /\ concurrency = 0
    /\ idx = 0
    /\ m = EmptyMap
    /\ concurrentProps = <<>>
    /\ tasks = <<>>
    /\ results = <<>>
    /\ groupErr = None
    /\ ctxDone = FALSE
    /\ tasksAtCancel = None
    /\ finishOrder = <<>>
    /\ invoked = {}
    /\ resetSeen = {}
    /\ page = None
    /\ ret = None
    /\ w = [statusCode |-> 0, header |-> [XInertia |-> <<>>, ContentType |-> ""],
            body |-> None]
    /\ mw = [pc |-> "off"]
    /\ rww = None
    /\ resp = None
    /\ opts = <<>>
    /\ storage = <<>>
    /\ structVal = <<>>
    /\ handlers = <<>>

\* Mutant of PkgRender: the renderer is taken from the context with a type
\* assertion that is not checked, which panics when there is none.
PkgRender_Unchecked ==
    /\ pc = "entry"
    /\ pc' = IF req.Context.kCtxKey = None THEN "panic" ELSE "idle"
    /\ UNCHANGED <<sideVars, resp, mw, rww, ctxDone, tasksAtCancel, resetSeen, finishOrder, renderer, req,
                   renderCtx, concurrency, idx, m, concurrentProps, tasks, results, groupErr,
                   invoked, page, ret, w>>

\* Render, lines 219-232: without a renderer in the request context it
\* returns an error; with one it calls Renderer.Render and returns its result.
PkgRender ==
    /\ pc = "entry"
    /\ IF req.Context.kCtxKey = None
       THEN /\ ret' = Some(ErrRendererNotFound)
            /\ pc' = "done"
       ELSE /\ ret' = ret
            /\ pc' = "idle"
    /\ UNCHANGED <<sideVars, resp, mw, rww, ctxDone, tasksAtCancel, resetSeen, finishOrder, renderer, req,
                   renderCtx, concurrency, idx, m, concurrentProps, tasks, results, groupErr,
                   invoked, page, w>>

NextEntry == PkgRender \/ Next

SpecEntry == InitEntry /\ [][NextEntry]_vars

----------------------------------------------------------------------------
\* The middleware (src/middleware.go), Location and Redirect.

StatusOK == 200
StatusNoContent == 204
StatusFound == 302
StatusSeeOther == 303
StatusConflict == 409

EmptyHeader ==
    [Vary |-> <<>>, XInertia |-> <<>>, XInertiaLocation |-> <<>>, Location |-> <<>>,
     ContentType |-> <<>>]

\* An http.ResponseWriter of the server: nothing is sent yet (statusCode 0).
NewHTTPWriter(h) == [kind |-> "http", statusCode |-> 0, header |-> h, body |-> <<>>]

\* newResponseWriter(w): the recording writer, in state Recording, with the
\* headers of w and neither status nor body.
newResponseWriter(wr) ==
    [kind |-> "rww", state |-> "Recording", statusCode |-> 0, header |-> wr.header,
     body |-> <<>>]

\* w.Header().Set / Del; a server's writer no longer takes headers once the
\* status line is out.
HeaderSet(wr, k, v) ==
    IF wr.kind = "http" /\ wr.statusCode # 0 THEN wr
    ELSE [wr EXCEPT !.header = [@ EXCEPT ![k] = v]]

HeaderDel(wr, k) == HeaderSet(wr, k, <<>>)

\* rww.WriteHeader(code): the recording writer keeps the last status it is
\* given and leaves Recording.
rwwWriteHeader(r, code) ==
    [r EXCEPT !.statusCode = code,
              !.state = IF @ = "Recording" THEN "Rewriting" ELSE @]

\* rww.Write(b): the recording writer records the bytes and leaves Recording.
rwwWrite(r, b) ==
    [r EXCEPT !.body = Append(@, b),
              !.state = IF @ = "Recording" THEN "Rewriting" ELSE @]

\* w.WriteHeader(code) on either writer; a server's writer sends the first
\* status only.
WriteHeader(wr, code) ==
    IF wr.kind = "rww" THEN rwwWriteHeader(wr, code)
    ELSE IF wr.statusCode # 0 THEN wr ELSE [wr EXCEPT !.statusCode = code]

\* w.Write(b) on either writer; a server's writer sends status 200 first when
\* none was sent.
Write(wr, b) ==
    IF wr.kind = "rww" THEN rwwWrite(wr, b)
    ELSE [wr EXCEPT !.statusCode = IF @ = 0 THEN StatusOK ELSE @,
                    !.body = Append(@, b)]

\* rww.Empty(): neither a status nor a byte was recorded.
Empty(r) == r.statusCode = 0 /\ r.body = <<>>

\* rww.flush(): the recorded headers, status and body go to the real writer.
flush(r, wr) ==
    LET w1 == [wr EXCEPT !.header = r.header]
        w2 == IF r.statusCode # 0 THEN WriteHeader(w1, r.statusCode) ELSE w1
    IN  IF r.body # <<>>
        THEN [w2 EXCEPT !.statusCode = IF @ = 0 THEN StatusOK ELSE @,
                        !.body = @ \o r.body]
        ELSE w2

\* path.Split of a request path: a path is its directory, in lexemes that end
\* with "/", followed by one lexeme for the rest.
Dir(path) == IF Len(path) <= 1 THEN <<"/">> ELSE SubSeq(path, 1, Len(path) - 1)

\* http.Redirect makes a url without scheme, host and leading "/" relative to
\* the directory of the request path; the empty url is that directory.
ResolveURL(r, url) == IF url = <<>> THEN Dir(r.RequestURI) ELSE url

\* http.Redirect(w, r, url, code) as called by inertiaredirect.Redirect.
HttpRedirect(wr, r, url, code) ==
    LET hadCT == wr.header.ContentType # <<>>
        w1 == HeaderSet(wr, "Location", ResolveURL(r, url))
        w2 == IF ~hadCT /\ r.Method \in {"GET", "HEAD"}
              THEN HeaderSet(w1, "ContentType", <<"text/html; charset=utf-8">>)
              ELSE w1
        w3 == WriteHeader(w2, code)
    IN  IF ~hadCT /\ r.Method = "GET" THEN Write(w3, "<a href>") ELSE w3

\* http.Error(w, msg, code) as called by DefaultEmptyResponseHandler.
HttpError(wr, msg, code) ==
    Write(WriteHeader(HeaderSet(wr, "ContentType", <<"text/plain; charset=utf-8">>), code),
          msg)

\* Mutant of Redirect: status 302 whatever the method.
Redirect_AlwaysFound(wr, r, url) == HttpRedirect(wr, r, url, StatusFound)

\* inertiaredirect.Redirect: 302 for GET, 303 for every other method.
Redirect(wr, r, url) ==
    HttpRedirect(wr, r, url, IF r.Method = "GET" THEN StatusFound ELSE StatusSeeOther)

\* Mutant of Location: a protocol request is redirected like any other.
Location_AlwaysRedirect(wr, r, url) == Redirect(wr, r, url)

\* Location (src/renderer.go).
Location(wr, r, url) ==
    IF isInertiaRequest(r)
    THEN WriteHeader(HeaderSet(HeaderDel(HeaderDel(wr, "Vary"), "XInertia"),
                               "XInertiaLocation", url),
                     StatusConflict)
    ELSE Redirect(wr, r, url)

DefaultEmptyResponseHandler(wr, r) == HttpError(wr, "Empty response", StatusNoContent)

DefaultVersionMismatchHandler(wr, r) == Location(wr, r, r.RequestURI)

\* Mutant of seeOtherMethods: DELETE is missing from the list.
seeOtherMethods_NoDelete == {"PATCH", "PUT"}

seeOtherMethods == {"PATCH", "PUT", "DELETE"}

Methods == {"GET", "POST", "PUT", "PATCH", "DELETE"}
TargetURL == <<"/somewhere">>

\* What the downstream handler does with the writer it is given.
HandlerKinds == {"nothing", "setHeader", "found", "write", "status", "location", "redirect"}

Handle(kind, wr, r) ==
    CASE kind = "nothing" -> wr
      [] kind = "setHeader" -> HeaderSet(wr, "ContentType", <<"application/json">>)
      [] kind = "found" -> HttpRedirect(wr, r, TargetURL, StatusFound)
      [] kind = "write" -> Write(wr, "body")
      [] kind = "status" -> WriteHeader(wr, 500)
      [] kind = "location" -> Location(wr, r, TargetURL)
      [] kind = "redirect" -> Redirect(wr, r, TargetURL)

renderVars ==
    <<renderCtx, pc, concurrency, idx, m, concurrentProps, tasks, results, groupErr,
      ctxDone, tasksAtCancel, finishOrder, invoked, resetSeen, page, ret, resp, sideVars>>

\* Mutant of SetVary: the Vary header is not set.
SetVary_Skip(wr) == wr

\* Lines 77-80: the renderer goes into the request context and the Vary
\* header is set on the real writer.
SetVary(wr) == HeaderSet(wr, "Vary", <<"X-Inertia">>)

\* Mutant of MwPassThrough: the request is not asked whether it is a protocol
\* request and goes on to the wrapper.
MwPassThrough_Wrapped ==
    /\ mw.pc = "start"
    /\ ~isInertiaRequest(req)
    /\ w' = SetVary(w)
    /\ rww' = Some(newResponseWriter(SetVary(w)))
    /\ mw' = [mw EXCEPT !.pc = "next", !.target = "rww"]
    /\ UNCHANGED <<renderer, req, renderVars>>

\* Lines 82-85: a request that is not a protocol request goes to the
\* downstream handler with the real writer.
MwPassThrough ==
    /\ mw.pc = "start"
    /\ ~isInertiaRequest(req)
    /\ w' = SetVary(w)
    /\ mw' = [mw EXCEPT !.pc = "next", !.target = "w"]
    /\ UNCHANGED <<renderer, req, rww, renderVars>>

\* Mutant of MwVersionMismatch: the return after the version-mismatch
\* handler is missing, so the request goes on to the downstream handler.
MwVersionMismatch_NoReturn ==
    /\ mw.pc = "start"
    /\ isInertiaRequest(req)
    /\ req.Header.XInertiaVersion # renderer.version
    /\ w' = DefaultVersionMismatchHandler(SetVary(w), req)
    /\ rww' = Some(newResponseWriter(w'))
    /\ mw' = [mw EXCEPT !.pc = "next", !.target = "rww", !.mismatchCalls = @ + 1]
    /\ UNCHANGED <<renderer, req, renderVars>>

\* Lines 87-92: the version of a protocol request differs from the
\* renderer's; the version-mismatch handler answers and the closure returns.
MwVersionMismatch ==
    /\ mw.pc = "start"
    /\ isInertiaRequest(req)
    /\ req.Header.XInertiaVersion # renderer.version
    /\ w' = DefaultVersionMismatchHandler(SetVary(w), req)
    /\ mw' = [mw EXCEPT !.pc = "done", !.mismatchCalls = @ + 1]
    /\ UNCHANGED <<renderer, req, rww, renderVars>>

\* Lines 87-95: the version matches; the real writer is wrapped and the
\* downstream handler gets the wrapper.
MwIntercept ==
    /\ mw.pc = "start"
    /\ isInertiaRequest(req)
    /\ req.Header.XInertiaVersion = renderer.version
    /\ w' = SetVary(w)
    /\ rww' = Some(newResponseWriter(SetVary(w)))
    /\ mw' = [mw EXCEPT !.pc = "next", !.target = "rww"]
    /\ UNCHANGED <<renderer, req, renderVars>>

\* next.ServeHTTP (lines 83 and 95): the downstream handler runs and returns.
Downstream ==
    /\ mw.pc = "next"
    /\ \E kind \in HandlerKinds :
         IF mw.target = "rww"
         THEN /\ rww' = Some(Handle(kind, rww[1], req))
              /\ w' = w
              /\ mw' = [mw EXCEPT !.pc = "after", !.handler = kind,
                                  !.issued = Handle(kind, rww[1], req),
                                  !.downstreamCalls = @ + 1]
         ELSE /\ w' = Handle(kind, w, req)
              /\ rww' = rww
              /\ mw' = [mw EXCEPT !.pc = "done", !.handler = kind,
                                  !.downstreamCalls = @ + 1]
    /\ UNCHANGED <<renderer, req, renderVars>>

\* Mutant of MwAfter: the wrapper is flushed without asking whether it is
\* empty.
MwAfter_AlwaysFlush ==
    /\ mw.pc = "after"
    /\ LET r0 == rww[1]
           r1 == IF r0.statusCode = StatusFound /\ req.Method \in seeOtherMethods
                 THEN WriteHeader(r0, StatusSeeOther)
                 ELSE r0
       IN  /\ w' = flush(r1, w)
           /\ rww' = Some([r1 EXCEPT !.state = "Flushed"])
           /\ mw' = [mw EXCEPT !.pc = "done", !.flushes = @ + 1]
    /\ UNCHANGED <<renderer, req, renderVars>>

\* Mutant of MwAfter: the return after the empty-response handler is
\* missing, so the wrapper is flushed as well.
MwAfter_NoReturn ==
    /\ mw.pc = "after"
    /\ LET r0 == rww[1]
           r1 == IF r0.statusCode = StatusFound /\ req.Method \in seeOtherMethods
                 THEN WriteHeader(r0, StatusSeeOther)
                 ELSE r0
       IN  IF Empty(r1)
           THEN /\ w' = flush(r1, DefaultEmptyResponseHandler(w, req))
                /\ rww' = Some([r1 EXCEPT !.state = "Flushed"])
                /\ mw' = [mw EXCEPT !.pc = "done", !.emptyCalls = @ + 1, !.flushes = @ + 1]
           ELSE /\ w' = flush(r1, w)
                /\ rww' = Some([r1 EXCEPT !.state = "Flushed"])
                /\ mw' = [mw EXCEPT !.pc = "done", !.flushes = @ + 1]
    /\ UNCHANGED <<renderer, req, renderVars>>

\* Mutant of MwAfter: the wrapper is flushed first and the 302 is rewritten
\* afterwards.
MwAfter_FlushFirst ==
    /\ mw.pc = "after"
    /\ LET r0 == rww[1]
           r1 == IF r0.statusCode = StatusFound /\ req.Method \in seeOtherMethods
                 THEN WriteHeader(r0, StatusSeeOther)
                 ELSE r0
       IN  IF Empty(r0)
           THEN /\ w' = DefaultEmptyResponseHandler(w, req)
                /\ rww' = Some(r1)
                /\ mw' = [mw EXCEPT !.pc = "done", !.emptyCalls = @ + 1]
           ELSE /\ w' = flush(r0, w)
                /\ rww' = Some([r1 EXCEPT !.state = "Flushed"])
                /\ mw' = [mw EXCEPT !.pc = "done", !.flushes = @ + 1]
    /\ UNCHANGED <<renderer, req, renderVars>>

\* Lines 97-107: a recorded 302 of a PATCH, PUT or DELETE request becomes 303;
\* an empty wrapper goes to the empty-response handler, any other is flushed.
MwAfter ==
    /\ mw.pc = "after"
    /\ LET r0 == rww[1]
           r1 == IF r0.statusCode = StatusFound /\ req.Method \in seeOtherMethods
                 THEN WriteHeader(r0, StatusSeeOther)
                 ELSE r0
       IN  IF Empty(r1)
           THEN /\ w' = DefaultEmptyResponseHandler(w, req)
                /\ rww' = Some(r1)
                /\ mw' = [mw EXCEPT !.pc = "done", !.emptyCalls = @ + 1]
           ELSE /\ w' = flush(r1, w)
                /\ rww' = Some([r1 EXCEPT !.state = "Flushed"])
                /\ mw' = [mw EXCEPT !.pc = "done", !.flushes = @ + 1]
    /\ UNCHANGED <<renderer, req, renderVars>>

NextMw ==
    \/ MwPassThrough
    \/ MwVersionMismatch
    \/ MwIntercept
    \/ Downstream
    \/ MwAfter

\* Every method, protocol and plain requests (the X-Inertia header absent
\* or other than "true"), a version header that matches, differs or is
\* absent, a real writer with or without an X-Inertia header set further out.
InitMw ==
    /\ renderer = [version |-> <<"v1">>, config |-> [Concurrency |-> 0],
                   concurrency |-> CmpOr(0, DefaultConcurrency, 0)]
    /\ \E method \in Methods, x \in {<<>>, <<"true">>, <<"True">>},
          v \in {<<>>, <<"v0">>, <<"v1">>} :
         req = [Method |-> method,
                RequestURI |-> <<"/inertia">>,
                Header |-> [XInertia |-> x,
                            XInertiaVersion |-> v,
                            XInertiaPartialComponent |-> <<>>,
                            XInertiaPartialData |-> <<>>,
                            XInertiaPartialExcept |-> <<>>,
                            XInertiaReset |-> <<>>]]
    /\ renderCtx = [Props |-> <<>>, ErrorBag |-> DefaultErrorBag, ValidationErrorer |-> <<>>,
                    Concurrency |-> 0]
    /\ pc = "idle"
    /\ concurrency = 0
    /\ idx = 0
    /\ m = EmptyMap
    /\ concurrentProps = <<>>
    /\ tasks = <<>>
    /\ results = <<>>
    /\ groupErr = None
    /\ ctxDone = FALSE
    /\ tasksAtCancel = None
    /\ finishOrder = <<>>
    /\ invoked = {}
    /\ resetSeen = {}
    /\ page = None
    /\ ret = None
    /\ \E x \in {<<>>, <<"true">>}, ct \in {<<>>, <<"text/html">>} :
         w = NewHTTPWriter([EmptyHeader EXCEPT !.XInertia = x, !.ContentType = ct])
    /\ mw = [pc |-> "start", target |-> "none", handler |-> "none", initial |-> w,
             issued |-> newResponseWriter(w), downstreamCalls |-> 0,
             mismatchCalls |-> 0, emptyCalls |-> 0, flushes |-> 0]
    /\ rww = None
    /\ resp = None
    /\ opts = <<>>
    /\ storage = <<>>
    /\ structVal = <<>>
    /\ handlers = <<>>

SpecMw == InitMw /\ [][NextMw]_vars

----------------------------------------------------------------------------
\* The endpoint handler of inertiaframe (newHandler) and its responses.

ErrEmptyResponse == <<"inertiaframe: empty response">>
ErrGetSession == <<"inertiaframe: failed to get session">>

\* The session cookie of a request: absent, the encoding Save gives a
\* session, or a value that does not decode.
NoCookie == <<>>
BadCookie == <<"garbage">>
Encode(sess) == <<"gob", sess>>

EmptySession == [Path_ |-> <<>>, ErrorBag_ |-> <<>>, ValidationErrors_ |-> <<>>]

\* sessionFromRequest: the session of the request context, else a new empty
\* session when there is no cookie, else the session the cookie decodes to;
\* None stands for the error of a cookie that does not decode.
sessionFromRequest(r) ==
    IF r.Context.kSessCtx # None THEN r.Context.kSessCtx
    ELSE IF r.Cookie = NoCookie THEN Some(EmptySession)
    ELSE IF r.Cookie[1] = "gob" THEN Some(r.Cookie[2])
    ELSE None

\* The request after sessionFromRequest: a decoded session is kept in the
\* request context, a new empty one is not.
WithSession(r) ==
    IF r.Context.kSessCtx = None /\ r.Cookie # NoCookie /\ sessionFromRequest(r) # None
    THEN [r EXCEPT !.Context.kSessCtx = sessionFromRequest(r)]
    ELSE r

\* RedirectBack: to the Referer header, else to the path of the session, else
\* to "/".
RedirectBack(wr, r) ==
    LET referer == IF r.Header.Referer # <<>> THEN r.Header.Referer
                   ELSE IF sessionFromRequest(r) = None THEN <<"/">>
                   ELSE sessionFromRequest(r)[1].Path_
    IN  Redirect(wr, r, referer)

\* The request after RedirectBack, which reads the session only without a
\* Referer header.
RedirectBackReq(r) == IF r.Header.Referer # <<>> THEN r ELSE WithSession(r)

\* session.ValidationErrors and session.ErrorBag return the field and clear
\* it: the session after the call.
ClearValidationErrors(sess) == [sess EXCEPT !.ValidationErrors_ = <<>>]
ClearErrorBag(sess) == [sess EXCEPT !.ErrorBag_ = <<>>]

\* The session after newHandler has read it: the error bag is read only when
\* there are validation errors.
SessionAfterRead(sess) ==
    IF sess.ValidationErrors_ # <<>> THEN ClearErrorBag(ClearValidationErrors(sess))
    ELSE ClearValidationErrors(sess)

\* The source holds redirectMessage.Write twice: the one of
\* src/inertiaframe/inertiaframe.go and the one of src/unnamed/part_008.
redirectMessageCopies == {"inertiaframe.go", "part_008"}

\* redirectMessage.Write
redirectMessageWrite(copy, msg, wr, r) ==
    IF copy = "inertiaframe.go" THEN Redirect(wr, r, msg.url)
    ELSE RedirectBack(wr, r)

\* RawResponseWriter.Write of the three redirect responses.
RawWrite(copy, msg, wr, r) ==
    CASE msg.kind = "redirect" -> redirectMessageWrite(copy, msg, wr, r)
      [] msg.kind = "redirectBack" -> RedirectBack(wr, r)
      [] msg.kind = "externalRedirect" -> Location(wr, r, msg.url)

\* The request after RawResponseWriter.Write.
RawWriteReq(copy, msg, r) ==
    IF msg.kind = "redirectBack" \/ (msg.kind = "redirect" /\ copy # "inertiaframe.go")
    THEN RedirectBackReq(r)
    ELSE r

NewRedirectResponse(url) == [kind |-> "redirect", url |-> url]
NewRedirectBackResponse == [kind |-> "redirectBack"]
NewExternalRedirectResponse(url) == [kind |-> "externalRedirect", url |-> url]

\* NewResponse: a component with its props; the options default to
\* DefaultConcurrency.
NewResponse(component, proper) ==
    [kind |-> "component", component |-> component, proper |-> proper,
     opts |-> [Concurrency |-> DefaultConcurrency]]

\* The shared props of the request context (WithProps), none when absent.
SharedProps(r) == IF r.Context.kCtxProps = None THEN <<>> ELSE r.Context.kCtxProps[1]

\* newHandler, from the return of endpoint.Execute to the call of
\* inertia.Render: a nil response is an error, a raw response writes itself,
\* for any other the render context is put together from the shared props,
\* the props of the response and the session.
FrameHandle ==
    /\ pc = "handler"
    /\ IF resp = None
       THEN /\ ret' = Some(ErrEmptyResponse)
            /\ pc' = "done"
            /\ UNCHANGED <<w, renderCtx, req>>
       ELSE IF resp[1].kind # "component"
       THEN /\ \E copy \in redirectMessageCopies :
                 /\ w' = RawWrite(copy, resp[1], w, req)
                 /\ req' = RawWriteReq(copy, resp[1], req)
            /\ ret' = Some(<<"nil">>)
            /\ pc' = "done"
            /\ UNCHANGED renderCtx
       ELSE IF sessionFromRequest(req) = None
       THEN /\ ret' = Some(ErrGetSession)
            /\ pc' = "done"
            /\ UNCHANGED <<w, renderCtx, req>>
       ELSE LET sess == sessionFromRequest(req)[1]
                errors == sess.ValidationErrors_
            IN  /\ renderCtx' =
                     [Props |-> SharedProps(req) \o resp[1].proper,
                      ErrorBag |-> IF errors # <<>> THEN sess.ErrorBag_ ELSE DefaultErrorBag,
                      ValidationErrorer |-> IF errors # <<>> THEN <<errors>> ELSE <<>>,
                      Concurrency |-> resp[1].opts.Concurrency]
                /\ req' = IF WithSession(req).Context.kSessCtx = None THEN req
                           ELSE [req EXCEPT !.Context.kSessCtx = Some(SessionAfterRead(sess))]
                /\ pc' = "entry"
                /\ UNCHANGED <<w, ret>>
    /\ UNCHANGED <<sideVars, resp, mw, rww, ctxDone, tasksAtCancel, resetSeen, finishOrder, renderer,
                   concurrency, idx, m, concurrentProps, tasks, results, groupErr, invoked,
                   page>>

NextFrame == FrameHandle \/ NextEntry

\* The props an endpoint and a middleware may give the same key: one of
\* every kind.
FrameProps ==
    {NewProp(<<"a">>, <<"val", 0>>, FALSE), NewAlways(<<"a">>, <<"val", 0>>),
     NewOptional(<<"a">>, <<"val", 0>>), NewDeferred(<<"a">>, <<"val", 0>>, None),
     NewDeferred(<<"a">>, <<"val", 0>>,
                 Some([Group |-> <<>>, Merge |-> FALSE, Concurrent |-> TRUE]))}

FrameSessions ==
    {EmptySession,
     [Path_ |-> <<"/session">>, ErrorBag_ |-> <<>>, ValidationErrors_ |-> <<>>],
     [Path_ |-> <<>>, ErrorBag_ |-> CustomErrorBag,
      ValidationErrors_ |-> <<NewValidationError("name", "m1")>>]}

FrameCookies == {NoCookie, BadCookie} \cup {Encode(sess) : sess \in FrameSessions}

\* The paths of the requests: at the top and in a directory.
FramePaths == {<<"/", "inertia">>, <<"/users/", "5">>}

\* The endpoint has returned: a component response whose props are split
\* between the shared props and the response, a redirect response, or nil.
InitFrame ==
    /\ renderer = [version |-> <<"v1">>, config |-> [Concurrency |-> 0],
                   concurrency |-> CmpOr(0, DefaultConcurrency, 0)]
    /\ \/ \E pl \in PropLists(FrameProps, MaxProps), n \in 0..MaxProps, cookie \in FrameCookies,
             pcmp \in {<<>>, ComponentName}, d \in {<<>>, <<"a">>}, e \in {<<>>, <<"a">>} :
            /\ n <= Len(pl)
            /\ req = [Method |-> "GET",
                      RequestURI |-> <<"/", "inertia">>,
                      Cookie |-> cookie,
                      Context |-> [kCtxKey |-> Some("renderer"),
                                   kCtxProps |-> IF n = 0 THEN None ELSE Some(SubSeq(pl, 1, n)),
                                   kSessCtx |-> None],
                      Header |-> [XInertia |-> <<"true">>,
                                  Referer |-> <<>>,
                                  XInertiaPartialComponent |-> pcmp,
                                  XInertiaPartialData |-> d,
                                  XInertiaPartialExcept |-> e,
                                  XInertiaReset |-> <<>>]]
            /\ resp = Some(NewResponse(ComponentName, SubSeq(pl, n + 1, Len(pl))))
            /\ w = [statusCode |-> 0, header |-> [XInertia |-> <<>>, ContentType |-> ""],
                    body |-> None]
       \/ \E method \in {"GET", "POST"}, x \in {<<>>, <<"true">>}, cookie \in FrameCookies,
             path \in FramePaths,
             ref \in {<<>>, <<"/referer">>},
             rs \in {None, Some(NewRedirectResponse(TargetURL)), Some(NewRedirectBackResponse),
                     Some(NewExternalRedirectResponse(TargetURL))} :
            /\ req = [Method |-> method,
                      RequestURI |-> path,
                      Cookie |-> cookie,
                      Context |-> [kCtxKey |-> Some("renderer"), kCtxProps |-> None,
                                   kSessCtx |-> None],
                      Header |-> [XInertia |-> x,
                                  Referer |-> ref,
                                  XInertiaPartialComponent |-> <<>>,
                                  XInertiaPartialData |-> <<>>,
                                  XInertiaPartialExcept |-> <<>>,
                                  XInertiaReset |-> <<>>]]
            /\ resp = rs
            /\ w = NewHTTPWriter(EmptyHeader)
    /\ renderCtx = [Props |-> <<>>, ErrorBag |-> DefaultErrorBag, ValidationErrorer |-> <<>>,
                    Concurrency |-> 0]
    /\ pc = "handler"
    /\ concurrency = 0
    /\ idx = 0
    /\ m = EmptyMap
    /\ concurrentProps = <<>>
    /\ tasks = <<>>
    /\ results = <<>>
    /\ groupErr = None
    /\ ctxDone = FALSE
    /\ tasksAtCancel = None
    /\ finishOrder = <<>>
    /\ invoked = {}
    /\ resetSeen = {}
    /\ page = None
    /\ ret = None
    /\ mw = [pc |-> "off"]
    /\ rww = None
    /\ opts = <<>>
    /\ storage = <<>>
    /\ structVal = <<>>
    /\ handlers = <<>>

SpecFrame == InitFrame /\ [][NextFrame]_vars

----------------------------------------------------------------------------
\* Vocabulary of the properties.

\* The request is a partial request for the rendered component.
IsPartial == isPartialComponentRequest(req, ComponentName)

\* Render has built the page; its Props field is the resolved prop mapping.
Resolved == page # None
PageProps == page[1].Props

RawIdx == 1..Len(RawProps)
NoWhitelist == req.Header.XInertiaPartialData = <<>>
NoBlacklist == req.Header.XInertiaPartialExcept = <<>>

\* Some always-prop of the final prop list has the key.
AlwaysKey(k) == \E j \in RawIdx : ~RawProps[j].ignorable /\ RawProps[j].key = k

\* The last prop of the final prop list that has the key and is not lazy.
LastEager(k) ==
    CHOOSE j \in RawIdx :
        /\ RawProps[j].key = k /\ ~RawProps[j].lazy
        /\ \A i \in (j + 1)..Len(RawProps) : ~(RawProps[i].key = k /\ ~RawProps[i].lazy)

\* C1 as stated: on a partial request with a non-empty whitelist and no
\* blacklist, the resolved mapping contains an ignorable prop's key if and
\* only if the key is in the whitelist.
C1_WhitelistExact ==
    (Resolved /\ IsPartial /\ Len(Whitelist) > 0 /\ NoBlacklist) =>
        \A j \in RawIdx : RawProps[j].ignorable =>
            (RawProps[j].key \in DOMAIN PageProps <=> Contains(Whitelist, RawProps[j].key))

\* C1 as amended: on a partial request with a non-empty whitelist and no
\* blacklist, the resolved mapping contains an ignorable prop's key if and
\* only if the key is in the whitelist or is also the key of an always-prop.
C1_WhitelistOrAlways ==
    (Resolved /\ IsPartial /\ Len(Whitelist) > 0 /\ NoBlacklist) =>
        \A j \in RawIdx : RawProps[j].ignorable =>
            (RawProps[j].key \in DOMAIN PageProps
                <=> (Contains(Whitelist, RawProps[j].key) \/ AlwaysKey(RawProps[j].key)))

\* Witness of C1: a partial render with whitelist and no blacklist resolved
\* one ignorable prop (whitelisted) and left out another (not whitelisted).
C1_Witness ==
    /\ Resolved /\ IsPartial /\ Len(Whitelist) > 0 /\ NoBlacklist
    /\ \E j, i \in RawIdx :
         /\ RawProps[j].ignorable /\ Contains(Whitelist, RawProps[j].key)
         /\ RawProps[j].key \in DOMAIN PageProps
         /\ RawProps[i].ignorable /\ ~Contains(Whitelist, RawProps[i].key)
         /\ RawProps[i].key \notin DOMAIN PageProps

\* C2 as stated: on a partial request with a non-empty blacklist and no
\* whitelist, the resolved mapping contains every ignorable prop whose key is
\* not in the blacklist and no ignorable prop whose key is in the blacklist.
C2_BlacklistExact ==
    (Resolved /\ IsPartial /\ Len(Blacklist) > 0 /\ NoWhitelist) =>
        \A j \in RawIdx : RawProps[j].ignorable =>
            (RawProps[j].key \in DOMAIN PageProps <=> ~Contains(Blacklist, RawProps[j].key))

\* C2 as amended: on a partial request with a non-empty blacklist and no
\* whitelist, the resolved mapping contains the key of every ignorable prop
\* whose key is not in the blacklist, and the key of an ignorable prop whose
\* key is in the blacklist only when an always-prop has the same key.
C2_BlacklistOrAlways ==
    (Resolved /\ IsPartial /\ Len(Blacklist) > 0 /\ NoWhitelist) =>
        \A j \in RawIdx : RawProps[j].ignorable =>
            (RawProps[j].key \in DOMAIN PageProps
                <=> (~Contains(Blacklist, RawProps[j].key) \/ AlwaysKey(RawProps[j].key)))

\* Witness of C2: a partial render with blacklist and no whitelist resolved
\* one ignorable prop and left out a blacklisted one.
C2_Witness ==
    /\ Resolved /\ IsPartial /\ Len(Blacklist) > 0 /\ NoWhitelist
    /\ \E j, i \in RawIdx :
         /\ RawProps[j].ignorable /\ ~Contains(Blacklist, RawProps[j].key)
         /\ RawProps[j].key \in DOMAIN PageProps
         /\ RawProps[i].ignorable /\ Contains(Blacklist, RawProps[i].key)
         /\ RawProps[i].key \notin DOMAIN PageProps

\* C3: on a partial request, whatever the whitelist and the blacklist, the
\* key of every always-prop (the validation-errors prop included) is in the
\* resolved mapping.
C3_AlwaysResolved ==
    (Resolved /\ IsPartial) =>
        \A j \in RawIdx : ~RawProps[j].ignorable => RawProps[j].key \in DOMAIN PageProps

\* Witness of C3: a partial render resolved an always-prop of the render
\* context whose key the whitelist omits and the blacklist names.
C3_Witness ==
    /\ Resolved /\ IsPartial
    /\ \E j \in 1..Len(renderCtx.Props) :
         /\ ~RawProps[j].ignorable
         /\ Len(Whitelist) > 0 /\ ~Contains(Whitelist, RawProps[j].key)
         /\ Contains(Blacklist, RawProps[j].key)
         /\ RawProps[j].key \in DOMAIN PageProps
         /\ PageProps[RawProps[j].key] = RawProps[j].val

\* C4 as stated: on a full render the resolved mapping contains the key of
\* every prop with lazy=false, mapped to that prop's value.
C4_EagerOwnValue ==
    (Resolved /\ ~IsPartial) =>
        \A j \in RawIdx : ~RawProps[j].lazy =>
            /\ RawProps[j].key \in DOMAIN PageProps
            /\ PageProps[RawProps[j].key] = RawProps[j].val

\* C4 as amended: on a full render the resolved mapping contains the key of
\* every prop with lazy=false, mapped to the value of the last prop with
\* lazy=false that has this key in the final prop list.
C4_EagerLastValue ==
    (Resolved /\ ~IsPartial) =>
        \A j \in RawIdx : ~RawProps[j].lazy =>
            /\ RawProps[j].key \in DOMAIN PageProps
            /\ PageProps[RawProps[j].key] = RawProps[LastEager(RawProps[j].key)].val

\* Witness of C4: a full render resolved two props with lazy=false that
\* share a key, and a third one with a key of its own.
C4_Witness ==
    /\ Resolved /\ ~IsPartial
    /\ \E j, i \in 1..Len(renderCtx.Props) :
         /\ j < i /\ ~RawProps[j].lazy /\ ~RawProps[i].lazy
         /\ RawProps[j].key = RawProps[i].key
         /\ PageProps[RawProps[i].key] = RawProps[i].val
    /\ PageProps[<<"errors">>] = RawProps[Len(RawProps)].val

\* C5 as stated: on a full render no prop with lazy=true has its key in the
\* resolved mapping, and its value function is never invoked.
C5_LazyKeyAbsent ==
    ~IsPartial =>
        \A j \in RawIdx : RawProps[j].lazy =>
            /\ j \notin invoked
            /\ Resolved => RawProps[j].key \notin DOMAIN PageProps

\* C5 as amended: on a full render the value function of a prop with
\* lazy=true is never invoked, and its key is in the resolved mapping only
\* when a prop with lazy=false has the same key (the value is then that
\* prop's).
C5_LazySkipped ==
    ~IsPartial =>
        \A j \in RawIdx : RawProps[j].lazy =>
            /\ j \notin invoked
            /\ Resolved =>
                 (RawProps[j].key \in DOMAIN PageProps =>
                    /\ \E i \in RawIdx : ~RawProps[i].lazy /\ RawProps[i].key = RawProps[j].key
                    /\ PageProps[RawProps[j].key] = RawProps[LastEager(RawProps[j].key)].val)

\* Witness of C5: a full render finished with an optional and a deferred
\* prop in the list, neither in the mapping.
C5_Witness ==
    /\ pc = "done" /\ Resolved /\ ~IsPartial
    /\ \E j, i \in RawIdx :
         /\ RawProps[j].lazy /\ ~RawProps[j].deferred
         /\ RawProps[i].lazy /\ RawProps[i].deferred
         /\ RawProps[j].key \notin DOMAIN PageProps
         /\ RawProps[i].key \notin DOMAIN PageProps

\* The props a render whose partial-component header names no component or
\* another one must resolve: the props with lazy=false, each key with the
\* value of the last of them.
FullRenderProps ==
    [k \in {RawProps[j].key : j \in {i \in RawIdx : ~RawProps[i].lazy}} |->
        RawProps[LastEager(k)].val]

\* The deferred index lists the prop under its group.
Listed(index, prop) ==
    prop.group \in DOMAIN index /\ Contains(index[prop.group], prop.key)

OtherComponentNamed ==
    /\ req.Header.XInertiaPartialComponent # <<>>
    /\ req.Header.XInertiaPartialComponent # ComponentName

\* C6: a request whose partial-component header names another component is
\* rendered in full: the partial branch is not entered, the whitelist and the
\* blacklist do not change the resolved props, no lazy prop is evaluated and
\* the deferred index is produced.
C6_OtherComponentFullRender ==
    OtherComponentNamed =>
        /\ pc \notin {"resolvePartial", "submit", "wait"}
        /\ \A j \in RawIdx : RawProps[j].lazy => j \notin invoked
        /\ Resolved =>
             /\ PageProps = FullRenderProps
             /\ page[1].DeferredProps # None
             /\ \A j \in RawIdx : RawProps[j].deferred =>
                    Listed(page[1].DeferredProps[1], RawProps[j])

\* Witness of C6: a render for another component kept a prop the whitelist
\* omits and the blacklist names, and left out (but indexed) a deferred prop
\* the whitelist names.
C6_Witness ==
    /\ OtherComponentNamed /\ Resolved
    /\ Len(Whitelist) > 0 /\ Len(Blacklist) > 0
    /\ \E j, i \in RawIdx :
         /\ RawProps[j].ignorable /\ ~RawProps[j].lazy
         /\ ~Contains(Whitelist, RawProps[j].key) /\ Contains(Blacklist, RawProps[j].key)
         /\ PageProps[RawProps[j].key] = RawProps[j].val
         /\ RawProps[i].deferred /\ Contains(Whitelist, RawProps[i].key)
         /\ RawProps[i].key \notin DOMAIN PageProps
         /\ Listed(page[1].DeferredProps[1], RawProps[i])

\* C7: on a full render every deferred prop is listed under its group in
\* deferredProps; on a partial render for the component deferredProps is nil.
C7_DeferredIndex ==
    Resolved =>
        IF IsPartial THEN page[1].DeferredProps = None
        ELSE /\ page[1].DeferredProps # None
             /\ \A j \in RawIdx : RawProps[j].deferred =>
                    Listed(page[1].DeferredProps[1], RawProps[j])

\* Witness of C7: a full render indexed a deferred prop of group g1 and one
\* of the default group.
C7_Witness ==
    /\ Resolved /\ ~IsPartial
    /\ \E j, i \in RawIdx :
         /\ RawProps[j].deferred /\ RawProps[j].group = <<"g1">>
         /\ RawProps[i].deferred /\ RawProps[i].group = DefaultDeferredGroup
         /\ Listed(page[1].DeferredProps[1], RawProps[j])
         /\ Listed(page[1].DeferredProps[1], RawProps[i])
         /\ DOMAIN page[1].DeferredProps[1] = {<<"g1">>, DefaultDeferredGroup}

ResetList == extractHeaderValueList(req.Header.XInertiaReset)

\* The prop is one the render resolves: not filtered on a partial render, not
\* lazy on a full one.
Resolves(j) ==
    IF IsPartial THEN ~Filtered(RawProps[j], Whitelist, Blacklist)
    ELSE ~RawProps[j].lazy

\* C8: the key of a mergeable prop is in mergeProps exactly when the reset
\* header of this request does not name it, whatever the reset headers of the
\* earlier requests named; a reset key whose prop the render resolves is
\* still in the resolved props, with the value of a resolved prop of that key.
C8_ResetThisResponseOnly ==
    Resolved =>
        \A j \in RawIdx : RawProps[j].mergeable =>
            /\ Contains(page[1].MergeProps, RawProps[j].key)
                  <=> ~Contains(ResetList, RawProps[j].key)
            /\ (Contains(ResetList, RawProps[j].key) /\ Resolves(j)) =>
                  /\ RawProps[j].key \in DOMAIN PageProps
                  /\ \E i \in RawIdx : /\ RawProps[i].key = RawProps[j].key
                                        /\ Resolves(i)
                                        /\ PageProps[RawProps[j].key] = RawProps[i].val

\* Witness of C8: a response without reset header lists the key of a
\* mergeable prop that the reset header of an earlier request named.
C8_Witness ==
    /\ Resolved /\ req.Header.XInertiaReset = <<>>
    /\ \E j \in RawIdx :
         /\ RawProps[j].mergeable /\ RawProps[j].key \in resetSeen
         /\ Contains(page[1].MergeProps, RawProps[j].key)
         /\ PageProps[RawProps[j].key] = RawProps[j].val

\* The concurrent props that pass the filter of a partial render.
ConcurrentIdx ==
    {j \in RawIdx : RawProps[j].concurrent /\ ~Filtered(RawProps[j], Whitelist, Blacklist)}

DistinctKeys(idxs) ==
    \A j, i \in idxs : j # i => RawProps[j].key # RawProps[i].key

\* C9: on a partial render whose concurrent props have keys of their own and
\* all succeed, under every order of the pool the resolved mapping holds the
\* key of each concurrent prop with the value of that very prop.
C9_ConcurrentOwnValues ==
    (Resolved /\ IsPartial /\ DistinctKeys(ConcurrentIdx)) =>
        \A j \in ConcurrentIdx :
            /\ RawProps[j].key \in DOMAIN PageProps
            /\ PageProps[RawProps[j].key] = RawProps[j].val

\* Witness of C9: three concurrent props were resolved although their
\* functions returned in another order than they were submitted.
C9_Witness ==
    /\ Resolved /\ IsPartial /\ DistinctKeys(ConcurrentIdx)
    /\ Cardinality(ConcurrentIdx) = 3
    /\ finishOrder = <<3, 1, 2>>
    /\ \A j \in ConcurrentIdx : PageProps[RawProps[j].key] = RawProps[j].val

IsError(r) == r # None /\ r # Some(<<"nil">>)

\* C10: once a concurrent prop of a partial render has failed, no page is
\* built and nothing is written to the response; Render ends with an error
\* and without a prop mapping.
C10_FailureNoPage ==
    (\E t \in DOMAIN tasks : tasks[t] = "failed") =>
        /\ page = None
        /\ w.statusCode = 0 /\ w.body = None
        /\ pc \notin {"newPage", "write"}
        /\ pc = "done" => (IsError(ret) /\ m = EmptyMap)

\* Witness of C10: Render has ended with the error of the group after one
\* concurrent prop failed, another succeeded and a sequential one was resolved.
C10_Witness ==
    /\ pc = "done" /\ IsError(ret)
    /\ ret[1][1] = "inertia: failed to resolve concurrent props"
    /\ \E t, u \in DOMAIN tasks : tasks[t] = "failed" /\ tasks[u] = "done"
    /\ \E j \in invoked : ~RawProps[j].concurrent

\* The tasks that failed, in the order in which their functions returned.
FailedInOrder == SelectSeq(finishOrder, LAMBDA t : tasks[t] = "failed")

FirstFailureErr ==
    LET prop == RawProps[concurrentProps[Head(FailedInOrder)]]
    IN  ErrResolveProp(prop.key, ValueErr(prop))

\* C11: when concurrent props fail, the error of the group, and the error
\* Render returns, is the error of the one whose failure came first; once a
\* failure is there, no queued resolution of the group is started.
C11_FirstErrorWins ==
    /\ []((\E t \in DOMAIN tasks : tasks[t] = "failed") =>
            /\ groupErr = Some(FirstFailureErr)
            /\ pc = "done" => ret = Some(ErrResolveConcurrent(FirstFailureErr)))
    /\ [][(\E t \in DOMAIN tasks : tasks[t] = "failed") =>
            \A t \in DOMAIN tasks : tasks[t] = "queued" => tasks'[t] # "running"]_vars

\* Witness of C11: two concurrent props failed, the one submitted second
\* first, a third was still queued and was skipped, and Render returned the
\* error of the first failure.
C11_Witness ==
    /\ pc = "done"
    /\ Len(FailedInOrder) = 2
    /\ FailedInOrder[1] > FailedInOrder[2]
    /\ \E t \in DOMAIN tasks : tasks[t] = "skipped" /\ concurrentProps[t] \notin invoked
    /\ ret = Some(ErrResolveConcurrent(FirstFailureErr))

\* C12: once Render has returned, with nil or with an error, no value
\* function of the render is running or waiting to run, and none is called
\* from then on.
C12_NothingRunsAfterReturn ==
    /\ [](ret # None => \A t \in DOMAIN tasks : tasks[t] \notin {"queued", "running"})
    /\ [][ret # None => invoked' = invoked]_vars

\* Witness of C12: Render returned the error of a concurrent prop that failed
\* while another was in flight; that one ran to its end before Render
\* returned.
C12_Witness ==
    /\ pc = "done" /\ IsError(ret)
    /\ Len(finishOrder) >= 2
    /\ tasks[finishOrder[1]] = "failed"
    /\ tasks[finishOrder[2]] = "done"
    /\ \A t \in DOMAIN tasks : tasks[t] \notin {"queued", "running"}

\* The request context was cancelled while a task of the pool was queued or
\* in flight.
CancelledInPool ==
    /\ tasksAtCancel # None
    /\ \E t \in DOMAIN tasksAtCancel[1] : tasksAtCancel[1][t] \in {"queued", "running"}

\* C13: when the request context is cancelled while concurrent props are
\* queued or in flight, the queued ones are never started, the ones in
\* flight hold a context that is cancelled, and Render builds no page and
\* returns an error.
C13_CancelStopsPool ==
    CancelledInPool =>
        /\ \A t \in DOMAIN tasks :
             tasksAtCancel[1][t] = "queued" =>
                /\ tasks[t] \in {"queued", "skipped"}
                /\ concurrentProps[t] \notin invoked
        /\ \A t \in DOMAIN tasks : tasks[t] = "running" => CtxErr(TaskCtx(t))
        /\ page = None /\ w.statusCode = 0
        /\ pc \notin {"newPage", "write"}
        /\ pc = "done" => IsError(ret)

\* Witness of C13: the context was cancelled with one concurrent prop in
\* flight and one queued; the first went on to succeed, the second was
\* skipped, and Render returned the cancellation as its error.
C13_Witness ==
    /\ CancelledInPool /\ pc = "done"
    /\ \E t, u \in DOMAIN tasks :
         /\ tasksAtCancel[1][t] = "running" /\ tasks[t] = "done"
         /\ tasksAtCancel[1][u] = "queued" /\ tasks[u] = "skipped"
    /\ ret = Some(ErrResolveConcurrent(ContextCanceled))

\* The concurrency asked for is negative: by the render context, or by the
\* renderer's configuration when the render context leaves it at 0.
NegativeConcurrency ==
    \/ renderCtx.Concurrency < 0
    \/ renderCtx.Concurrency = 0 /\ renderer.concurrency < 0

\* C14: with a negative concurrency the concurrent props are resolved one
\* after the other: never are two value functions of the render running at
\* the same time.
C14_NegativeIsSequential ==
    NegativeConcurrency => Busy <= 1

\* C15 as stated: with RenderContext.Concurrency = 0 the effective
\* concurrency is the renderer's Config.Concurrency, DefaultConcurrency when
\* that is 0; a positive RenderContext.Concurrency overrides it.  The pool
\* runs at most that many value functions at a time.
C15_EffectiveIsConfig ==
    pc # "idle" =>
        /\ renderCtx.Concurrency = 0 =>
             concurrency = (IF renderer.config.Concurrency = 0
                            THEN DefaultConcurrency
                            ELSE renderer.config.Concurrency)
        /\ renderCtx.Concurrency > 0 => concurrency = renderCtx.Concurrency
        /\ concurrency > 0 => Busy <= concurrency

\* C15 as amended: with RenderContext.Concurrency = 0 the effective
\* concurrency is the renderer's Config.Concurrency when that is positive,
\* DefaultConcurrency when it is 0 and 0 when it is negative; a positive
\* RenderContext.Concurrency overrides it.  The pool runs at most that many
\* value functions at a time.
C15_EffectiveConcurrency ==
    pc # "idle" =>
        /\ renderCtx.Concurrency = 0 =>
             concurrency = (IF renderer.config.Concurrency = 0
                            THEN DefaultConcurrency
                            ELSE Max(renderer.config.Concurrency, 0))
        /\ renderCtx.Concurrency > 0 => concurrency = renderCtx.Concurrency
        /\ concurrency > 0 => Busy <= concurrency

\* Witness of C15: a render without a concurrency of its own, under a
\* renderer configured without one, runs DefaultConcurrency value functions
\* and keeps a third prop queued.
C15_Witness ==
    /\ pc = "wait"
    /\ renderCtx.Concurrency = 0 /\ renderer.config.Concurrency = 0
    /\ concurrency = DefaultConcurrency
    /\ Busy = DefaultConcurrency
    /\ \E t \in DOMAIN tasks : tasks[t] = "queued"

VersionMismatch ==
    isInertiaRequest(req) /\ req.Header.XInertiaVersion # renderer.version

\* C16: for a protocol request whose version header differs from the
\* renderer's version the downstream handler is never called and the
\* version-mismatch handler is; the default handler answers with the protocol's
\* redirect to the request's own URL (status 409, X-Inertia-Location), and
\* the status is never 200.
C16_VersionMismatchRedirects ==
    VersionMismatch =>
        /\ mw.downstreamCalls = 0
        /\ mw.pc \in {"start", "done"}
        /\ rww = None
        /\ w.statusCode # StatusOK
        /\ mw.pc = "done" =>
             /\ mw.mismatchCalls = 1
             /\ w.statusCode = StatusConflict
             /\ w.header.XInertiaLocation = req.RequestURI
             /\ w.body = <<>>

\* Witness of C16: a protocol request with version v0 against a renderer of
\* version v1 was answered by the version-mismatch handler.
C16_Witness ==
    /\ mw.pc = "done" /\ VersionMismatch
    /\ req.Header.XInertiaVersion = <<"v0">> /\ renderer.version = <<"v1">>
    /\ mw.mismatchCalls = 1 /\ mw.downstreamCalls = 0
    /\ w.statusCode = StatusConflict
    /\ w.header.XInertiaLocation = <<"/inertia">>

\* The request was intercepted and the downstream handler has returned.
Intercepted == mw.target = "rww" /\ mw.pc \in {"after", "done"}

\* C17: when the handler of an intercepted request issued status 302, the
\* client gets 303 for PATCH, PUT and DELETE and 302 for GET and POST, with
\* the Location header the handler set.
C17_FoundBecomesSeeOther ==
    (Intercepted /\ mw.pc = "done" /\ mw.issued.statusCode = StatusFound) =>
        /\ w.statusCode = (IF req.Method \in {"PATCH", "PUT", "DELETE"}
                           THEN StatusSeeOther
                           ELSE StatusFound)
        /\ w.header.Location = mw.issued.header.Location
        /\ w.header.Location = TargetURL

\* Witness of C17: the handler of a DELETE request issued 302 and the client
\* got 303 with the handler's Location.
C17_Witness ==
    /\ Intercepted /\ mw.pc = "done"
    /\ req.Method = "DELETE"
    /\ mw.issued.statusCode = StatusFound
    /\ w.statusCode = StatusSeeOther
    /\ w.header.Location = TargetURL

\* The downstream handler returned without a status and without a byte.
HandlerWroteNothing == mw.issued.statusCode = 0 /\ mw.issued.body = <<>>

\* C18: when the handler of an intercepted request returns without having
\* set a status or written a byte, the empty-response handler answers (204 by
\* default), the wrapper is not flushed and the client gets no 200.
C18_EmptyResponse ==
    (Intercepted /\ mw.pc = "done" /\ HandlerWroteNothing) =>
        /\ mw.emptyCalls = 1 /\ mw.flushes = 0
        /\ rww[1].state = "Recording"
        /\ w.statusCode = StatusNoContent
        /\ w.statusCode # StatusOK

\* Witness of C18: a handler that only set a header left the wrapper empty
\* and the client got the 204 of the empty-response handler.
C18_Witness ==
    /\ Intercepted /\ mw.pc = "done" /\ HandlerWroteNothing
    /\ mw.handler = "setHeader"
    /\ w.statusCode = StatusNoContent
    /\ w.body = <<"Empty response">>
    /\ mw.emptyCalls = 1 /\ mw.flushes = 0

\* Position of a state of the interceptor in Recording -> Rewriting -> Flushed.
StateRank(st) ==
    CASE st = "Recording" -> 0
      [] st = "Rewriting" -> 1
      [] st = "Flushed" -> 2

\* C19: the interceptor of a request only moves forward through Recording,
\* Rewriting, Flushed, and reaches Flushed from Rewriting only; for every
\* intercepted request exactly one of the empty-response handler and the flush
\* happens, the flush at most once, and after it neither the wrapper nor the
\* real response changes.
C19_InterceptorLinear ==
    /\ [](/\ mw.flushes <= 1 /\ mw.emptyCalls <= 1
          /\ (Intercepted /\ mw.pc = "done") => mw.emptyCalls + mw.flushes = 1
          /\ rww # None => (rww[1].state = "Flushed" <=> mw.flushes = 1)
          /\ mw.emptyCalls = 1 => rww[1].state = "Recording")
    /\ [][(rww # None /\ rww' # None) =>
            /\ StateRank(rww'[1].state) >= StateRank(rww[1].state)
            /\ (rww'[1].state = "Flushed" /\ rww[1].state # "Flushed") =>
                  rww[1].state = "Rewriting"
            /\ rww[1].state = "Flushed" => (rww' = rww /\ w' = w)]_vars

\* Witness of C19: the handler wrote a body, the interceptor went through
\* Rewriting and was flushed once; the client has the body.
C19_Witness ==
    /\ Intercepted /\ mw.pc = "done"
    /\ mw.handler = "write"
    /\ mw.issued.state = "Rewriting"
    /\ rww[1].state = "Flushed"
    /\ mw.flushes = 1 /\ mw.emptyCalls = 0
    /\ w.statusCode = StatusOK /\ w.body = <<"body">>

\* What Location leaves in the writer it was given for a protocol request.
LocationAnswer(wr, url) ==
    /\ wr.header.Vary = <<>>
    /\ wr.header.XInertia = <<>>
    /\ wr.header.XInertiaLocation = url
    /\ wr.header.Location = <<>>
    /\ wr.statusCode = StatusConflict
    /\ wr.statusCode \notin {StatusFound, StatusSeeOther}

\* C20: Location on a protocol request, called by the version-mismatch
\* handler with the real writer or by the downstream handler with the
\* wrapper, removes the Vary and X-Inertia headers, sets X-Inertia-Location to
\* the URL and sets status 409, never 302 or 303; the client gets the 409.
C20_LocationConflict ==
    /\ (VersionMismatch /\ mw.pc = "done") => LocationAnswer(w, req.RequestURI)
    /\ (Intercepted /\ mw.handler = "location") =>
          /\ LocationAnswer(mw.issued, TargetURL)
          /\ mw.pc = "done" => w.statusCode = StatusConflict

\* Witness of C20: the handler of a protocol request called Location; the
\* wrapper has lost the Vary header the middleware had set, has the location
\* header and status 409.
C20_Witness ==
    /\ Intercepted /\ mw.pc = "after" /\ mw.handler = "location"
    /\ w.header.Vary = <<"X-Inertia">>
    /\ rww[1].header.Vary = <<>>
    /\ rww[1].header.XInertiaLocation = TargetURL
    /\ rww[1].statusCode = StatusConflict

\* The handler called Redirect, or Location on a request that is not a
\* protocol request.
PlainRedirect ==
    \/ mw.handler = "redirect"
    \/ mw.handler = "location" /\ ~isInertiaRequest(req)

\* C21: Redirect, and Location on a request that is not a protocol request,
\* answer with status 302 when the method is GET and with 303 for every other
\* method, and set the Location header to the target URL; this is what the
\* writer handed to the handler holds and what the client gets.
C21_RedirectStatus ==
    PlainRedirect =>
        LET code == IF req.Method = "GET" THEN StatusFound ELSE StatusSeeOther
        IN  /\ mw.target = "rww" =>
                 /\ mw.issued.statusCode = code
                 /\ mw.issued.header.Location = TargetURL
            /\ mw.pc = "done" =>
                 /\ w.statusCode = code
                 /\ w.header.Location = TargetURL

\* Witness of C21: Location was called on a POST request that is not a
\* protocol request and the client got 303 with the Location header.
C21_Witness ==
    /\ mw.pc = "done" /\ mw.handler = "location"
    /\ ~isInertiaRequest(req) /\ req.Method = "POST"
    /\ mw.target = "w"
    /\ w.statusCode = StatusSeeOther
    /\ w.header.Location = TargetURL

\* The answer is the one Location gives to a protocol request: by the default
\* version-mismatch handler, or by a downstream handler that called Location.
LocationOnProtocolRequest ==
    \/ VersionMismatch
    \/ Intercepted /\ mw.handler = "location"

\* C22 as stated: on every path through the middleware the response carries
\* the Vary header set to X-Inertia.
C22_VaryAlways ==
    mw.pc = "done" => w.header.Vary = <<"X-Inertia">>

\* C22 as amended: the response carries the Vary header set to X-Inertia on
\* the pass-through, empty-response and flushed paths, unless it is the
\* answer of Location to a protocol request; the answer of the default
\* version-mismatch handler, which is Location's, carries no Vary header.
C22_VaryUnlessLocation ==
    mw.pc = "done" =>
        /\ ~LocationOnProtocolRequest => w.header.Vary = <<"X-Inertia">>
        /\ VersionMismatch => w.header.Vary = <<>>

\* Witness of C22: the handler of a protocol request left the wrapper empty;
\* the answer of the empty-response handler carries the Vary header.
C22_Witness ==
    /\ mw.pc = "done" /\ Intercepted
    /\ mw.emptyCalls = 1 /\ mw.handler = "nothing"
    /\ w.statusCode = StatusNoContent
    /\ w.header.Vary = <<"X-Inertia">>

\* The validation errors of the render context, in the order in which
\* makeValidationErrors goes through them.
RECURSIVE Flatten(_)
Flatten(errorers) ==
    IF errorers = <<>> THEN <<>> ELSE Head(errorers) \o Flatten(Tail(errorers))

AllErrors == Flatten(renderCtx.ValidationErrorer)

\* The message of the last error of the field.
LastMessage(field) ==
    AllErrors[CHOOSE n \in 1..Len(AllErrors) :
                /\ AllErrors[n].field = field
                /\ \A k \in (n + 1)..Len(AllErrors) : AllErrors[k].field # field].message

\* C23: the validation errors are in the props as props.errors.<field> under
\* the default error bag and as props.<bag>.errors.<field> under another one:
\* the map found there has exactly the fields of the errors, each with the
\* message of the field's last error.
C23_ValidationErrorsShape ==
    Resolved =>
        LET bag == renderCtx.ErrorBag
            top == IF bag = DefaultErrorBag THEN <<"errors">> ELSE bag
        IN  /\ top \in DOMAIN PageProps
            /\ PageProps[top][1] = "map"
            /\ bag # DefaultErrorBag =>
                 /\ DOMAIN PageProps[top][2] = {<<"errors">>}
                 /\ PageProps[top][2][<<"errors">>][1] = "map"
                 /\ <<"errors">> \notin DOMAIN PageProps
            /\ LET errors == IF bag = DefaultErrorBag THEN PageProps[top][2]
                             ELSE PageProps[top][2][<<"errors">>][2]
               IN  /\ DOMAIN errors = {AllErrors[n].field : n \in 1..Len(AllErrors)}
                   /\ \A f \in DOMAIN errors : errors[f] = <<"str", LastMessage(f)>>

\* Witness of C23: a partial render under the custom error bag, whose
\* whitelist leaves the bag out, carries props.custom.errors with both fields,
\* the name field with the later of its two messages.
C23_Witness ==
    /\ Resolved /\ IsPartial
    /\ renderCtx.ErrorBag = CustomErrorBag
    /\ Whitelist = <<<<"a">>>>
    /\ AllErrors = <<NewValidationError("name", "m1"), NewValidationError("email", "m1"),
                     NewValidationError("name", "m2")>>
    /\ PageProps[CustomErrorBag][2][<<"errors">>][2]
         = [f \in {"name", "email"} |-> <<"str", IF f = "name" THEN "m2" ELSE "m1">>]

\* The props of the key that the render resolves.
ResolvedWithKey(k) == {j \in RawIdx : RawProps[j].key = k /\ Resolves(j)}

\* The greatest index of a non-empty set of indices.
Last(idxs) == CHOOSE j \in idxs : \A i \in idxs : i <= j

\* C24: when props of the final prop list share a key and are resolved, the
\* resolved mapping holds under the key the value of the last of them in list
\* order, on full and on partial renders, concurrent props included.
C24_LastInListWins ==
    Resolved =>
        \A j \in RawIdx : Resolves(j) =>
            /\ RawProps[j].key \in DOMAIN PageProps
            /\ PageProps[RawProps[j].key] = RawProps[Last(ResolvedWithKey(RawProps[j].key))].val

\* The response is as the handler got it: no status, no header, no body.
Untouched(wr) ==
    /\ wr.statusCode = 0
    /\ wr.header = [XInertia |-> <<>>, ContentType |-> ""]
    /\ wr.body = None

\* Render's error wraps the error of the prop's value function and names
\* the prop's key.
WrapsAndNames(r, prop) ==
    /\ IsError(r)
    /\ ErrorsIs(r[1], ValueErr(prop))
    /\ NamesKey(r[1], prop.key)

\* C25: when a value function that a render evaluates returns an error,
\* Render returns an error that wraps this error and names the prop's key
\* (with several failing concurrent props, those of one of them), and
\* neither builds a page nor writes a status, a header or a body.
C25_ErrorWrapsAndNamesKey ==
    /\ []((IsError(ret) \/ \E t \in DOMAIN tasks : tasks[t] = "failed") =>
            /\ page = None /\ Untouched(w)
            /\ pc \notin {"newPage", "write"}
            /\ pc = "done" => IsError(ret))
    /\ []((pc = "done" /\ \E t \in DOMAIN tasks : tasks[t] = "failed") =>
            \E t \in DOMAIN tasks :
                tasks[t] = "failed" /\ WrapsAndNames(ret, RawProps[concurrentProps[t]]))
    /\ [][(pc \in {"makeProps", "resolvePartial"} /\ ret' # None) =>
            /\ idx \in invoked' /\ RawProps[idx].valFn
            /\ WrapsAndNames(ret', RawProps[idx])]_vars
    /\ [](IsError(ret) =>
            \E j \in invoked : RawProps[j].valFn /\ WrapsAndNames(ret, RawProps[j]))

\* Witness of C25: on a partial render the value function of the second prop,
\* sequential and keyed b, failed after the first prop was resolved; Render
\* returned the wrapped error and the response is untouched.
C25_Witness ==
    /\ pc = "done" /\ IsPartial /\ tasks = <<>>
    /\ Len(renderCtx.Props) >= 2
    /\ invoked = {2} /\ RawProps[2].key = <<"b">>
    /\ ret = Some(ErrResolveProp(<<"b">>, ValueErr(RawProps[2])))
    /\ Untouched(w) /\ page = None

\* The request did not pass through the middleware.
NoRendererInContext == req.Context.kCtxKey = None

\* C26: the package-level Render, called with a request whose context holds
\* no renderer, does not panic and returns the renderer-not-found error; no
\* prop is evaluated, no page is built and nothing is written to the response.
C26_RenderWithoutMiddleware ==
    NoRendererInContext =>
        /\ pc \in {"entry", "done"}
        /\ pc = "done" => ret = Some(ErrRendererNotFound)
        /\ IsError(ret) \/ ret = None
        /\ Untouched(w) /\ page = None /\ invoked = {}

\* Witness of C26: Render has returned its error for a request without
\* renderer and with props in the render context.
C26_Witness ==
    /\ NoRendererInContext /\ pc = "done"
    /\ ret = Some(ErrRendererNotFound)
    /\ Len(renderCtx.Props) = MaxProps
    /\ Untouched(w)

\* C27: for a request that is not a protocol request the downstream handler
\* is called once with the real writer, which then holds exactly what the
\* handler did to it; the version is not checked, no wrapper is made, no
\* status is rewritten and the empty-response handler is not called.
C27_PassThroughUnchanged ==
    ~isInertiaRequest(req) =>
        /\ mw.mismatchCalls = 0 /\ mw.emptyCalls = 0 /\ mw.flushes = 0
        /\ rww = None
        /\ mw.target \in {"none", "w"}
        /\ mw.pc \in {"start", "next", "done"}
        /\ mw.pc = "next" => w = SetVary(mw.initial)
        /\ mw.pc = "done" =>
             /\ mw.downstreamCalls = 1
             /\ w = Handle(mw.handler, SetVary(mw.initial), req)

\* Witness of C27: a PATCH request with X-Inertia: True and a version that
\* differs went to a handler that issued 302; the client got the 302.
C27_Witness ==
    /\ mw.pc = "done" /\ ~isInertiaRequest(req)
    /\ req.Header.XInertia = <<"True">>
    /\ req.Method = "PATCH"
    /\ req.Header.XInertiaVersion = <<"v0">>
    /\ mw.handler = "found" /\ mw.downstreamCalls = 1
    /\ w.statusCode = StatusFound

\* The prop was built by NewOptional.
IsOptional(prop) == prop.lazy /\ ~prop.deferred /\ prop.ignorable

\* C28: the value function of an optional prop is invoked only on a partial
\* render for the component whose whitelist names the prop's key; on a full
\* render and on a partial render whose whitelist is absent or omits the key
\* it is not invoked.
C28_OptionalOnlyWhenRequested ==
    \A j \in RawIdx :
        (IsOptional(RawProps[j]) /\ j \in invoked) =>
            (IsPartial /\ Contains(Whitelist, RawProps[j].key))

\* The indices, in the final prop list, of the shared props and of the props
\* of the response.
SharedIdx == 1..Len(SharedProps(req))
ResponseIdx == (Len(SharedProps(req)) + 1)..Len(renderCtx.Props)

\* C29: when a shared prop and a prop of the response have the same key, the
\* page carries under this key the value of a prop of the response, whatever
\* the kinds of the props, on full and on partial renders.
C29_ResponsePropWins ==
    (Resolved /\ resp # None) =>
        \A i \in SharedIdx, j \in ResponseIdx :
            RawProps[i].key = RawProps[j].key =>
                /\ RawProps[j].key \in DOMAIN PageProps
                /\ PageProps[RawProps[j].key] \in
                     {RawProps[x].val : x \in {y \in ResponseIdx : RawProps[y].key = RawProps[j].key}}

\* The handler has written the response of NewRedirectResponse.
RedirectResponseWritten == pc = "done" /\ resp # None /\ resp[1].kind = "redirect"

\* C30: the response of NewRedirectResponse(url) redirects to url, never to
\* the referer or to the path of the session: the Location header it writes
\* is url, with 302 for GET and 303 for the other methods.
C30_RedirectsToURL ==
    RedirectResponseWritten =>
        /\ w.header.Location = resp[1].url
        /\ w.statusCode = IF req.Method = "GET" THEN StatusFound ELSE StatusSeeOther

\* The handler has written the response of NewRedirectBackResponse, that is,
\* RedirectBack has run.
RedirectedBack == pc = "done" /\ resp # None /\ resp[1].kind = "redirectBack"

\* C31: RedirectBack redirects to the Referer header when there is one, else
\* to the path stored in the session, and to "/" when there is no session (no
\* session cookie, or one that does not decode).
C31_RedirectBackTarget ==
    RedirectedBack =>
        /\ req.Header.Referer # <<>> => w.header.Location = req.Header.Referer
        /\ (req.Header.Referer = <<>> /\ req.Cookie \in {NoCookie, BadCookie}) =>
               w.header.Location = <<"/">>
        /\ (req.Header.Referer = <<>> /\ req.Cookie \notin {NoCookie, BadCookie}
              /\ req.Cookie[2].Path_ # <<>>) =>
               w.header.Location = req.Cookie[2].Path_

\* The WithValidationErrors options that were given errors, and their bags.
ErrorOptions == {n \in 1..Len(opts) : opts[n].kind = "WithValidationErrors" /\ opts[n].errorers # None}
BagsUsed == {opts[n].errorBag : n \in ErrorOptions}

\* The errors given for the bag, in the order of the options.
RECURSIVE BagErrorsOf(_, _)
BagErrorsOf(os, bag) ==
    IF os = <<>> THEN <<>>
    ELSE (IF Head(os).kind = "WithValidationErrors" /\ Head(os).errorers # None
             /\ Head(os).errorBag = bag
          THEN Head(os).errorers[1] ELSE <<>>) \o BagErrorsOf(Tail(os), bag)

\* The error map the page carries for the bag: props.errors for the default
\* bag, props.<bag>.errors for another one, the empty map when there is none.
ErrorsUnder(bag) ==
    LET top == IF bag = DefaultErrorBag THEN <<"errors">> ELSE bag
    IN  IF top \notin DOMAIN PageProps THEN EmptyMap
        ELSE IF bag = DefaultErrorBag THEN PageProps[top][2]
        ELSE PageProps[top][2][<<"errors">>][2]

\* C32: when WithValidationErrors is applied several times with different
\* error bags, the page carries under each bag the errors given for this bag
\* and no others.
C32_BagsIndependent ==
    (Resolved /\ Cardinality(BagsUsed) > 1) =>
        \A bag \in BagsUsed :
            LET given == BagErrorsOf(opts, bag)
            IN  /\ DOMAIN ErrorsUnder(bag) = {given[n].field : n \in 1..Len(given)}
                /\ \A n \in 1..Len(given) :
                     \E k \in 1..Len(given) :
                        /\ given[k].field = given[n].field
                        /\ ErrorsUnder(bag)[given[n].field] = <<"str", given[k].message>>

\* ParseStruct has run.
Parsed == pc # "parse"

\* The tag has the literal among its comma-separated parts.
HasLiteral(tag, literal) == \E n \in 1..Len(Split(tag, Comma)) : Split(tag, Comma)[n] = literal

\* The field is one ParseStruct turns into a prop: exported, tagged in the
\* documented format, its value a Lazy where the type asks for one, and not
\* left out as an empty omitempty field.
Taken(field) ==
    /\ field.exported /\ field.tag \in DocTags
    /\ (HasLiteral(field.tag, propTypeOptional) \/ HasLiteral(field.tag, propTypeDeferred)) => field.lazy
    /\ ~(HasLiteral(field.tag, propOmitEmpty) /\ field.zero)
    /\ field.group # <<>> => HasLiteral(field.tag, propTypeDeferred)

\* C33: a deferred field whose tag, in the documented format, includes the
\* literal "concurrent" becomes a prop with concurrent = TRUE, and a regular or
\* deferred field whose tag includes "mergeable" one with mergeable = TRUE.
C33_TagLiterals ==
    Parsed =>
        \A j \in 1..Len(structVal) :
            Taken(structVal[j]) =>
                /\ (HasLiteral(structVal[j].tag, propTypeDeferred) /\ HasLiteral(structVal[j].tag, propConcurrent)) =>
                     \E n \in 1..Len(renderCtx.Props) :
                        renderCtx.Props[n].val = <<"val", j>> /\ renderCtx.Props[n].concurrent
                /\ (~HasLiteral(structVal[j].tag, propTypeOptional) /\ ~HasLiteral(structVal[j].tag, propTypeAlways)
                      /\ HasLiteral(structVal[j].tag, propMergeable)) =>
                     \E n \in 1..Len(renderCtx.Props) :
                        renderCtx.Props[n].val = <<"val", j>> /\ renderCtx.Props[n].mergeable

\* The positions of the commas of a header value, and the k-th of them.
Commas(h) == {n \in 1..Len(h) : h[n] = Comma}
NthComma(h, k) == CHOOSE n \in Commas(h) : Cardinality({x \in Commas(h) : x <= n}) = k

\* The k-th comma-separated field of a header value, as it stands.
RawField(h, k) ==
    SubSeq(h, IF k = 1 THEN 1 ELSE NthComma(h, k - 1) + 1,
              IF k = Cardinality(Commas(h)) + 1 THEN Len(h) ELSE NthComma(h, k) - 1)

\* f is raw without the spaces at its two ends.
TrimmedOf(raw, f) ==
    /\ f = <<>> \/ (f[1] # Space /\ f[Len(f)] # Space)
    /\ \E i \in 1..(Len(raw) + 1), j \in 0..Len(raw) :
          /\ f = SubSeq(raw, i, j)
          /\ \A n \in 1..Len(raw) : (n < i \/ n > j) => raw[n] = Space

\* C34: extractHeaderValueList gives nil for the absent or empty header and
\* otherwise the comma-separated fields in order, each without its surrounding
\* spaces, the empty fields kept: one field more than there are commas.
C34_HeaderValueList ==
    LET h == req.Header.XInertiaPartialData
    IN  /\ h = <<>> => Whitelist = <<>>
        /\ h # <<>> =>
             /\ Len(Whitelist) = Cardinality(Commas(h)) + 1
             /\ \A k \in 1..Len(Whitelist) : TrimmedOf(RawField(h, k), Whitelist[k])

\* C34 witness: a partial render whose whitelist header is " a," has used the
\* list of the field a and of an empty field: the prop a is resolved, the prop
\* b is not.
C34_Witness ==
    /\ Resolved /\ IsPartial
    /\ req.Header.XInertiaPartialData = <<Space, "a", Comma>>
    /\ Whitelist = <<<<"a">>, <<>>>>
    /\ \E j \in 1..Len(renderCtx.Props) : renderCtx.Props[j].key = <<"b">>
    /\ <<"a">> \in DOMAIN PageProps
    /\ <<"b">> \notin DOMAIN PageProps

\* The real writer has been sent neither a status nor a byte.
NothingSent == w.statusCode = 0 /\ w.body = <<>>

\* The interceptor rewrites the recorded 302 of this request.
Rewrites == rww # None /\ rww[1].statusCode = StatusFound /\ req.Method \in seeOtherMethods

\* C35: for an intercepted request the real writer is sent no status and no
\* byte until the downstream handler has returned; the step of the handler
\* leaves the real writer alone; the recorded 302 becomes 303 in one step only,
\* the one after the handler's return in which the real writer gets its first
\* status, so that the client never sees the 302.
C35_NothingBeforeReturn ==
    /\ []((mw.target = "rww" /\ mw.pc \in {"next", "after"}) => NothingSent)
    /\ [][(mw.target = "rww" /\ mw.pc = "next") => (w' = w /\ mw'.pc = "after")]_vars
    /\ [][(rww # None /\ rww' # None /\ rww'[1].statusCode = StatusSeeOther
             /\ rww[1].statusCode = StatusFound) =>
            /\ mw.pc = "after" /\ mw'.pc = "done" /\ Rewrites
            /\ NothingSent /\ w'.statusCode = StatusSeeOther]_vars
    /\ [][(mw.target = "rww" /\ NothingSent /\ w'.statusCode # 0) =>
            /\ mw.pc = "after"
            /\ Rewrites => w'.statusCode = StatusSeeOther]_vars

\* Witness of C35: the handler of a PUT request recorded a 302 through the
\* wrapper and returned; the interceptor rewrote it and flushed, and the first
\* status the real writer got is 303.
C35_Witness ==
    /\ mw.target = "rww" /\ mw.pc = "done"
    /\ req.Method = "PUT"
    /\ mw.issued.statusCode = StatusFound
    /\ rww[1].statusCode = StatusSeeOther /\ rww[1].state = "Flushed"
    /\ mw.flushes = 1
    /\ w.statusCode = StatusSeeOther

\* The number of concurrent props the render has submitted to the pool.
Submitted == Len(tasks)

\* C36: during a partial render with an effective concurrency N > 0 never more
\* than N value functions of concurrent props are running, however many were
\* submitted, and a worker takes a task only while fewer than N are running.
C36_AtMostNRunning ==
    /\ []((IsPartial /\ concurrency > 0) => Busy <= concurrency)
    /\ [][(concurrency > 0 /\ \E t \in DOMAIN tasks : t \in DOMAIN tasks'
             /\ tasks[t] = "queued" /\ tasks'[t] = "running") => Busy < concurrency]_vars

\* Witness of C36: three concurrent props were submitted under an effective
\* concurrency of 1; one value function is running and two props wait.
C36_Witness ==
    /\ IsPartial /\ pc = "wait"
    /\ concurrency = 1
    /\ Submitted = 3
    /\ Busy = 1
    /\ Cardinality({t \in DOMAIN tasks : tasks[t] = "queued"}) = 2

\* The sequential props of the list the render works on: those the first
\* loop of resolvePartialComponentRequest evaluates inline.
Sequential(i) == ~RawProps[i].concurrent

\* C37: on a partial render the value function of a sequential prop is
\* invoked inline by the loop, in list order, while nothing has been
\* submitted to the pool; when a sequential prop fails the render is over
\* with that prop's wrapped error, nothing has been submitted and no prop
\* after it has been invoked, and nothing is invoked or submitted later.
C37_SequentialBeforeConcurrent ==
    /\ []((IsPartial /\ Submitted > 0) => pc \in {"wait", "newPage", "write", "done"})
    /\ [][IsPartial =>
            \A i \in invoked' \ invoked :
                Sequential(i) =>
                    /\ pc = "resolvePartial" /\ i = idx
                    /\ Submitted = 0
                    /\ \A j \in invoked : j < i]_vars
    /\ [][(IsPartial /\ pc = "resolvePartial" /\ ret' # None) =>
            /\ pc' = "done"
            /\ ret' = Some(ErrResolveProp(RawProps[idx].key, ValueErr(RawProps[idx])))
            /\ Sequential(idx)
            /\ tasks' = <<>>
            /\ invoked' \subseteq 1..idx]_vars
    /\ [][(IsPartial /\ pc = "done" /\ ret # None /\ Submitted = 0) =>
            /\ invoked' = invoked
            /\ tasks' = tasks]_vars

\* A sequential prop has failed with a sequential prop and a concurrent prop
\* after it in the list: neither was invoked, nothing was submitted.
C37_Witness ==
    /\ IsPartial /\ pc = "done"
    /\ Submitted = 0
    /\ \E i \in invoked :
         /\ Sequential(i)
         /\ ret = Some(ErrResolveProp(RawProps[i].key, ValueErr(RawProps[i])))
         /\ \E j \in (i + 1)..Len(RawProps) :
              Sequential(j) /\ RawProps[j].valFn /\ j \notin invoked
         /\ \E k \in (i + 1)..Len(RawProps) : RawProps[k].concurrent

----------------------------------------------------------------------------
\* Two inertiaframe handlers at work side by side on requests whose context
\* carries one and the same shared Props (WithProps, inertiaframe.go lines
\* 56-58).  Props.Props returns the slice itself (src/unnamed/part_002, line
\* 178), so that `storage` is the backing array which the props of both
\* handlers start out on.

\* Capacity of the backing array of the shared Props.
MaxSharedCap == 3
HandlerIds == {1, 2}

\* Prop{}: what a slot of the backing array beyond the length holds.
ZeroProp ==
    [key |-> <<>>, val |-> <<"nil">>, valFn |-> FALSE, group |-> <<>>,
     mergeable |-> FALSE, deferred |-> FALSE, lazy |-> FALSE,
     ignorable |-> FALSE, concurrent |-> FALSE]

\* The props a handler sees through its slice: the first `len` slots of the
\* shared backing array, or of the array append allocated for it.
SliceElems(sl) ==
    IF sl.shared THEN SubSeq(storage.array, 1, sl.len) ELSE SubSeq(sl.array, 1, sl.len)

\* props = proper.Props() (lines 482-487): the slice header of the shared
\* Props is copied, the backing array is not.
FrameLoadShared(h) ==
    /\ handlers[h].pc = "load"
    /\ handlers' = [handlers EXCEPT ![h].pc = "append",
                                    ![h].props = [shared |-> TRUE, len |-> storage.len,
                                                  array |-> <<>>]]
    /\ UNCHANGED <<storage, structVal, opts, resp, mw, rww, ctxDone, tasksAtCancel, resetSeen,
                   finishOrder, renderer, req, renderCtx, pc, concurrency, idx, m,
                   concurrentProps, tasks, results, groupErr, invoked, page, ret, w>>

\* props = append(props, proper.Props()...) (lines 489-494), for a response
\* that has props: append writes behind the length into the backing array
\* when its capacity suffices, and into a new array otherwise.
FrameAppend(h) ==
    /\ handlers[h].pc = "append"
    /\ LET hd == handlers[h]
           n == hd.props.len
           k == Len(hd.own)
       IN  IF k = 0
           THEN /\ handlers' = [handlers EXCEPT ![h].pc = "render"]
                /\ storage' = storage
           ELSE IF n + k <= Len(storage.array)
           THEN /\ storage' = [storage EXCEPT
                                 !.array = [i \in 1..Len(storage.array) |->
                                              IF i > n /\ i <= n + k THEN hd.own[i - n]
                                              ELSE storage.array[i]]]
                /\ handlers' = [handlers EXCEPT ![h].pc = "render",
                                                ![h].props.len = n + k]
           ELSE /\ storage' = storage
                /\ handlers' = [handlers EXCEPT
                                  ![h].pc = "render",
                                  ![h].props = [shared |-> FALSE, len |-> n + k,
                                                array |-> SliceElems(hd.props) \o hd.own]]
    /\ UNCHANGED <<structVal, opts, resp, mw, rww, ctxDone, tasksAtCancel, resetSeen,
                   finishOrder, renderer, req, renderCtx, pc, concurrency, idx, m,
                   concurrentProps, tasks, results, groupErr, invoked, page, ret, w>>

\* renderCtx.Props = props and inertia.Render (lines 496, 512): the render
\* reads the props through the slice.
FrameRenderProps(h) ==
    /\ handlers[h].pc = "render"
    /\ handlers' = [handlers EXCEPT ![h].pc = "done",
                                    ![h].rendered = SliceElems(handlers[h].props)]
    /\ UNCHANGED <<storage, structVal, opts, resp, mw, rww, ctxDone, tasksAtCancel, resetSeen,
                   finishOrder, renderer, req, renderCtx, pc, concurrency, idx, m,
                   concurrentProps, tasks, results, groupErr, invoked, page, ret, w>>

NextShared ==
    \E h \in HandlerIds : FrameLoadShared(h) \/ FrameAppend(h) \/ FrameRenderProps(h)

\* The props of the responses and the shared props.
OwnKeys == <<<<"x">>, <<"y">>>>
SharedPropList == <<NewProp(<<"a">>, <<"val", 0>>, FALSE), NewProp(<<"b">>, <<"val", 0>>, FALSE)>>

\* The rest of the state, which the handlers leave alone on their way to
\* inertia.Render.
InitSharedRest ==
    /\ renderer = [version |-> <<"v1">>, config |-> [Concurrency |-> 0],
                   concurrency |-> DefaultConcurrency]
    /\ req = [Method |-> "GET",
              Header |-> [XInertia |-> <<"true">>, XInertiaPartialComponent |-> <<>>,
                          XInertiaPartialData |-> <<>>, XInertiaPartialExcept |-> <<>>,
                          XInertiaReset |-> <<>>]]
    /\ renderCtx = [Props |-> <<>>, ErrorBag |-> DefaultErrorBag, ValidationErrorer |-> <<>>,
                    Concurrency |-> 0]
    /\ pc = "handler"
    /\ concurrency = 0
    /\ idx = 0
    /\ m = EmptyMap
    /\ concurrentProps = <<>>
    /\ tasks = <<>>
    /\ results = <<>>
    /\ groupErr = None
    /\ ctxDone = FALSE
    /\ tasksAtCancel = None
    /\ finishOrder = <<>>
    /\ invoked = {}
    /\ resetSeen = {}
    /\ page = None
    /\ ret = None
    /\ w = [statusCode |-> 0, header |-> [XInertia |-> <<>>, ContentType |-> ""],
            body |-> None]
    /\ mw = [pc |-> "off"]
    /\ rww = None
    /\ resp = None
    /\ opts = <<>>
    /\ structVal = <<>>

\* The shared Props of every length and capacity up to MaxSharedCap, and two
\* handlers whose responses have no prop, one prop or two.
InitShared ==
    /\ InitSharedRest
    /\ \E n \in 0..2, c \in 0..MaxSharedCap :
         /\ n <= c
         /\ storage = [len |-> n,
                       array |-> [i \in 1..c |-> IF i <= n THEN SharedPropList[i]
                                                 ELSE ZeroProp]]
    /\ \E k1 \in 0..2, k2 \in 0..2 :
         handlers = [h \in HandlerIds |->
                       [pc |-> "load",
                        props |-> [shared |-> FALSE, len |-> 0, array |-> <<>>],
                        own |-> [i \in 1..(IF h = 1 THEN k1 ELSE k2) |->
                                   NewProp(OwnKeys[i], <<"val", h>>, FALSE)],
                        rendered |-> <<>>]]

SpecShared == InitShared /\ [][NextShared]_vars

\* The props a handler is meant to render: the shared props followed by
\* the props of its own response.
Expected(h) == SubSeq(storage.array, 1, storage.len) \o handlers[h].own

\* C38: no step of a handler changes the shared Props or its backing array,
\* and a handler that has rendered has rendered the shared props followed
\* by the props of its own response.
C38_SharedPropsUntouched ==
    /\ [][storage' = storage]_vars
    /\ [](\A h \in HandlerIds :
            handlers[h].pc = "done" => handlers[h].rendered = Expected(h))

\* The session the request's cookie holds, and what is left of it in the
\* request context once the handler has read it.
StoredSession == req.Cookie[2]
SessionLeft == req.Context.kSessCtx[1]
SessionRead == pc # "handler" /\ req.Context.kSessCtx # None

\* C39: what the handler reads from the session is cleared by the read.  A
\* render receives the validation errors and the error bag the session holds
\* and leaves a session without them; a redirect back that reads the last
\* path of the session leaves a session without last path.
C39_GetAndClear ==
    SessionRead =>
        /\ resp[1].kind = "component" =>
             /\ SessionLeft.ValidationErrors_ = <<>>
             /\ StoredSession.ValidationErrors_ # <<>> =>
                  /\ renderCtx.ValidationErrorer = <<StoredSession.ValidationErrors_>>
                  /\ renderCtx.ErrorBag = StoredSession.ErrorBag_
                  /\ SessionLeft.ErrorBag_ = <<>>
        /\ resp[1].kind # "component" => SessionLeft.Path_ = <<>>

----------------------------------------------------------------------------
\* Render when what it writes with fails (src/renderer.go, lines 159-198).

ErrEncodeJSON == <<"inertia: failed to encode JSON response">>
ErrRenderSSR == <<"inertia: failed to render SSR data">>
ErrRootView == <<"inertia: failed to create an HTML container">>
ErrExecuteTemplate == <<"inertia: failed to execute HTML template">>

\* The failures Render can meet after newPage: the JSON encoding of the page
\* for a protocol request (line 167); else the SSR client (line 179) when it
\* is configured or the root view (line 187) when it is not, and the
\* template (line 195).
WriteErrors(r, ssr) ==
    IF isInertiaRequest(r) THEN {ErrEncodeJSON}
    ELSE IF ssr THEN {ErrRenderSSR, ErrExecuteTemplate}
    ELSE {ErrRootView, ErrExecuteTemplate}

\* Render, lines 159-198, when the encoder, the SSR client or the template
\* fails: the headers and the status are written before any of them is
\* called (lines 163-165 and 174-175), and the error is returned.
WriteFailure ==
    /\ pc = "write"
    /\ w' = [statusCode |-> StatusOK,
             header |-> IF isInertiaRequest(req)
                        THEN [XInertia |-> <<"true">>, ContentType |-> "application/json"]
                        ELSE [XInertia |-> <<>>, ContentType |-> "text/html"],
             body |-> None]
    /\ \E ssr \in BOOLEAN : \E e \in WriteErrors(req, ssr) : ret' = Some(e)
    /\ pc' = "done"
    /\ UNCHANGED <<sideVars, resp, mw, rww, ctxDone, tasksAtCancel, resetSeen, finishOrder, renderer, req, renderCtx, concurrency, idx, m, concurrentProps,
                   tasks, results, groupErr, invoked, page>>

NextWrite == WriteFailure \/ NextEntry

\* Render with collaborators that may fail, for protocol and plain requests.
SpecWrite == InitEntry /\ [][NextWrite]_vars

\* Render has returned an error.
RenderFailed == pc = "done" /\ ret # None /\ ret # Some(<<"nil">>)

\* C40: when Render has returned an error no status code has been written
\* to the response writer.
C40_NoStatusOnError == RenderFailed => w.statusCode = 0

====
